---- MODULE Spec2Model ----
(***************************************************************************)
(* A model of csvmapper: the CSV column mapping tool of src/.              *)
(*                                                                         *)
(* Strings are TLA+ strings, read character by character with SubSeq.      *)
(* JSON / JavaScript values that are not known to be strings are tagged    *)
(* records [t |-> tag, v |-> payload]; an object is the ordered sequence   *)
(* of its own <<key, value>> entries, as Object.entries lists them.  The   *)
(* property names used in the model are none of Object.prototype's, and    *)
(* none is an integer index, so own-key lookup and insertion order are     *)
(* what the code's `in`, `[]` and Object.entries give.                     *)
(***************************************************************************)
EXTENDS Integers, Sequences, FiniteSets, TLC

VARIABLES
    inputCSV,          \* useSignal("")        the text of the CSV input box
    parsedCSV,         \* useSignal<ParsedCSV> [headers, rows]
    mappings,          \* useSignal<ColumnMapping[]>
    inputDelimiter,    \* useSignal<Delimiter>(";")
    outputDelimiter,   \* useSignal<Delimiter>(";")
    decimalSeparator,  \* useSignal<DecimalSeparator>(",")
    importJsonText,    \* useSignal("")        the import text box: NoText or the pasted document
    importError,       \* useSignal<string | null>
    importSuccess,     \* useSignal<string | null>
    args,              \* the arguments of a call of one of the utility functions
    result,            \* what the call returned, NotCalled before it
    importJsonUrl,     \* useSignal("")        the URL box of the import panel
    examples,          \* useSignal<Example[]>([])  the ids of the examples index
    exampleLoading,    \* useSignal(false)
    fetches            \* the calls of importFromUrl and loadExample, in the order they
                       \* were started: the await each is suspended at, and once it
                       \* has settled the response it got and its rank among the settled

vars == <<inputCSV, parsedCSV, mappings, inputDelimiter, outputDelimiter,
          decimalSeparator, importJsonText, importError, importSuccess, args, result,
          importJsonUrl, examples, exampleLoading, fetches>>

-----------------------------------------------------------------------------
(* Bounds of the model *)

\* longest conversions list the edit handlers build in one column
MaxConversions == 1
\* how many sections of an import document differ from the well-formed base document
MaxDeviations == 2
\* how many calls of importFromUrl and loadExample a session starts
MaxFetches == 2
\* longest text handed to detectDelimiter, but for the texts of many lines
MaxTextLen == 3
\* longest buffer handed to detectAndDecodeText, but for the chosen longer ones
MaxBytes == 3
\* most rows of a table handed to stringifyCSV
MaxRows == 1

-----------------------------------------------------------------------------
(* Strings *)

Char(s, i) == SubSeq(s, i, i)

StartsWith(s, p) == Len(s) >= Len(p) /\ SubSeq(s, 1, Len(p)) = p

Slice(s, n) == SubSeq(s, n + 1, Len(s))

IsWhiteSpace(c) == c \in {" ", "\t", "\n", "\r"}

RECURSIVE TrimStart(_)
TrimStart(s) ==
    IF Len(s) > 0 /\ IsWhiteSpace(Char(s, 1)) THEN TrimStart(Slice(s, 1)) ELSE s

RECURSIVE TrimEnd(_)
TrimEnd(s) ==
    IF Len(s) > 0 /\ IsWhiteSpace(Char(s, Len(s)))
    THEN TrimEnd(SubSeq(s, 1, Len(s) - 1)) ELSE s

\* a trim that drops one white-space character at each end and no more
TrimOnce(s) ==
    LET t == IF Len(s) > 0 /\ IsWhiteSpace(Char(s, 1)) THEN Slice(s, 1) ELSE s
    IN  IF Len(t) > 0 /\ IsWhiteSpace(Char(t, Len(t))) THEN SubSeq(t, 1, Len(t) - 1) ELSE t

Trim(s) == TrimEnd(TrimStart(s))

\* String.prototype.indexOf for a one-character needle: 1-based, 0 when absent
RECURSIVE IndexOfFrom(_, _, _)
IndexOfFrom(s, c, i) ==
    IF i > Len(s) THEN 0
    ELSE IF Char(s, i) = c THEN i
    ELSE IndexOfFrom(s, c, i + 1)

IndexOf(s, c) == IndexOfFrom(s, c, 1)

Includes(s, c) == IndexOf(s, c) > 0

\* String.prototype.split for a one-character separator
RECURSIVE Split(_, _)
Split(s, c) ==
    LET i == IndexOf(s, c)
    IN  IF i = 0 THEN <<s>>
        ELSE <<SubSeq(s, 1, i - 1)>> \o Split(Slice(s, i), c)

RECURSIVE Join(_, _)
Join(parts, sep) ==
    IF Len(parts) = 0 THEN ""
    ELSE IF Len(parts) = 1 THEN parts[1]
    ELSE parts[1] \o sep \o Join(Tail(parts), sep)

LowerChar(c) ==
    CASE c = "A" -> "a" [] c = "B" -> "b" [] c = "C" -> "c" [] c = "D" -> "d"
      [] c = "E" -> "e" [] c = "F" -> "f" [] c = "G" -> "g" [] c = "H" -> "h"
      [] c = "I" -> "i" [] c = "J" -> "j" [] c = "K" -> "k" [] c = "L" -> "l"
      [] c = "M" -> "m" [] c = "N" -> "n" [] c = "O" -> "o" [] c = "P" -> "p"
      [] c = "Q" -> "q" [] c = "R" -> "r" [] c = "S" -> "s" [] c = "T" -> "t"
      [] c = "U" -> "u" [] c = "V" -> "v" [] c = "W" -> "w" [] c = "X" -> "x"
      [] c = "Y" -> "y" [] c = "Z" -> "z" [] OTHER -> c

UpperChar(c) ==
    CASE c = "a" -> "A" [] c = "b" -> "B" [] c = "c" -> "C" [] c = "d" -> "D"
      [] c = "e" -> "E" [] c = "f" -> "F" [] c = "g" -> "G" [] c = "h" -> "H"
      [] c = "i" -> "I" [] c = "j" -> "J" [] c = "k" -> "K" [] c = "l" -> "L"
      [] c = "m" -> "M" [] c = "n" -> "N" [] c = "o" -> "O" [] c = "p" -> "P"
      [] c = "q" -> "Q" [] c = "r" -> "R" [] c = "s" -> "S" [] c = "t" -> "T"
      [] c = "u" -> "U" [] c = "v" -> "V" [] c = "w" -> "W" [] c = "x" -> "X"
      [] c = "y" -> "Y" [] c = "z" -> "Z" [] OTHER -> c

RECURSIVE ToLowerCase(_)
ToLowerCase(s) ==
    IF Len(s) = 0 THEN "" ELSE LowerChar(Char(s, 1)) \o ToLowerCase(Slice(s, 1))

RECURSIVE ToUpperCase(_)
ToUpperCase(s) ==
    IF Len(s) = 0 THEN "" ELSE UpperChar(Char(s, 1)) \o ToUpperCase(Slice(s, 1))

\* Array.prototype.indexOf on a sequence: 1-based, 0 when absent
RECURSIVE SeqIndexOfFrom(_, _, _)
SeqIndexOfFrom(seq, x, i) ==
    IF i > Len(seq) THEN 0
    ELSE IF seq[i] = x THEN i
    ELSE SeqIndexOfFrom(seq, x, i + 1)

SeqIndexOf(seq, x) == SeqIndexOfFrom(seq, x, 1)

Range(seq) == {seq[i] : i \in 1..Len(seq)}

\* String(n) for a natural number
RECURSIVE NatToString(_)
NatToString(n) ==
    IF n < 10 THEN Char("0123456789", n + 1)
    ELSE NatToString(n \div 10) \o Char("0123456789", (n % 10) + 1)

-----------------------------------------------------------------------------
(* JavaScript values *)

JUndefined == [t |-> "undefined"]
JNull == [t |-> "null"]
JStr(s) == [t |-> "str", v |-> s]
JNum(n) == [t |-> "num", v |-> n]
JArr(items) == [t |-> "arr", v |-> items]
JObj(entries) == [t |-> "obj", v |-> entries]

\* typeof x === "object": null and arrays are objects too
TypeofObject(x) == x.t \in {"null", "arr", "obj"}

\* !x
Falsy(x) ==
    \/ x.t \in {"undefined", "null"}
    \/ x.t = "str" /\ x.v = ""
    \/ x.t = "num" /\ x.v = 0

\* Object.entries(x), for a value it does not raise on
Entries(x) ==
    CASE x.t = "obj" -> x.v
      [] x.t = "arr" -> [i \in 1..Len(x.v) |-> <<NatToString(i - 1), x.v[i]>>]
      [] x.t = "str" -> [i \in 1..Len(x.v) |-> <<NatToString(i - 1), JStr(Char(x.v, i))>>]
      [] OTHER -> <<>>

\* Object.keys(x)
Keys(x) == [i \in 1..Len(Entries(x)) |-> Entries(x)[i][1]]

\* key in x
HasKey(x, key) == \E i \in 1..Len(Entries(x)) : Entries(x)[i][1] = key

\* x[key]
Get(x, key) ==
    IF HasKey(x, key)
    THEN LET i == CHOOSE j \in 1..Len(Entries(x)) : Entries(x)[j][1] = key
         IN  Entries(x)[i][2]
    ELSE JUndefined

\* x[key] = value on an object: an existing key keeps its place
Put(x, key, value) ==
    IF HasKey(x, key)
    THEN JObj([i \in 1..Len(x.v) |->
                 IF x.v[i][1] = key THEN <<key, value>> ELSE x.v[i]])
    ELSE JObj(Append(x.v, <<key, value>>))

-----------------------------------------------------------------------------
(* utils/csv.ts *)

Delimiters == {",", ";", "\t"}

\* the lines the parser reads: split on "\n", a "\r" before it dropped
ReadLines(text) ==
    LET raw == Split(text, "\n")
    IN  [i \in 1..Len(raw) |->
            IF Len(raw[i]) > 0 /\ Char(raw[i], Len(raw[i])) = "\r"
            THEN SubSeq(raw[i], 1, Len(raw[i]) - 1) ELSE raw[i]]

\* One record of @std/csv's parse with lazyQuotes: `line` is what is left of the
\* current line, `rest` the lines after it, `fields` the fields read so far; inside
\* a quoted field `quoted` is TRUE and `acc` is the field so far.
RECURSIVE ParseRecord(_, _, _, _, _, _)
ParseRecord(line, rest, fields, quoted, acc, separator) ==
    IF ~quoted
    THEN IF Len(line) = 0 \/ ~StartsWith(line, "\"")
         THEN \* a field that is not quoted runs to the separator; a quote in it is kept
              LET i == IndexOf(line, separator)
              IN  IF i > 0
                  THEN ParseRecord(Slice(line, i), rest,
                                   Append(fields, SubSeq(line, 1, i - 1)),
                                   FALSE, "", separator)
                  ELSE [record |-> Append(fields, line), rest |-> rest]
         ELSE ParseRecord(Slice(line, 1), rest, fields, TRUE, "", separator)
    ELSE LET i == IndexOf(line, "\"")
         IN  IF i > 0
             THEN LET got == acc \o SubSeq(line, 1, i - 1)
                      after == Slice(line, i)
                  IN  IF StartsWith(after, "\"")
                      THEN ParseRecord(Slice(after, 1), rest, fields, TRUE,
                                       got \o "\"", separator)
                      ELSE IF StartsWith(after, separator)
                      THEN ParseRecord(Slice(after, 1), rest, Append(fields, got),
                                       FALSE, "", separator)
                      ELSE IF Len(after) = 0
                      THEN [record |-> Append(fields, got), rest |-> rest]
                      ELSE \* lazyQuotes: a quote before anything else is a bare quote
                           ParseRecord(after, rest, fields, TRUE, got \o "\"", separator)
             ELSE IF Len(rest) > 0
             THEN \* the quoted field goes on in the next line
                  ParseRecord(rest[1], Tail(rest), fields, TRUE,
                              acc \o line \o "\n", separator)
             ELSE \* lazyQuotes: the input ends inside the quoted field
                  [record |-> Append(fields, acc \o line), rest |-> rest]

\* parse(text, {separator, lazyQuotes: true}): every record; empty lines are skipped
RECURSIVE ParseLines(_, _)
ParseLines(lines, separator) ==
    IF Len(lines) = 0 THEN <<>>
    ELSE IF Len(lines[1]) = 0 THEN ParseLines(Tail(lines), separator)
    ELSE LET r == ParseRecord(lines[1], Tail(lines), <<>>, FALSE, "", separator)
         IN  <<r.record>> \o ParseLines(r.rest, separator)

EmptyCSV == [headers |-> <<>>, rows |-> <<>>]

parseCSV(text, delimiter) ==
    LET trimmed == Trim(text)
    IN  IF trimmed = "" THEN EmptyCSV
        ELSE LET records == ParseLines(ReadLines(trimmed), delimiter)
             IN  IF Len(records) = 0 THEN EmptyCSV
                 ELSE [headers |-> records[1], rows |-> Tail(records)]

\* @std/csv's stringify writes a field in quotes, its quotes doubled, when it
\* holds the separator, a line feed or a quote
EscapedString(value, separator) ==
    IF Includes(value, separator) \/ Includes(value, "\n") \/ Includes(value, "\"")
    THEN "\"" \o Join(Split(value, "\""), "\"\"") \o "\"" ELSE value

\* stringify(data, {separator, headers: false}): every record ends with CRLF
RECURSIVE Stringify(_, _)
Stringify(data, separator) ==
    IF Len(data) = 0 THEN ""
    ELSE Join([i \in 1..Len(data[1]) |-> EscapedString(data[1][i], separator)], separator)
         \o "\r\n" \o Stringify(Tail(data), separator)

stringifyCSV(headers, rows, delimiter) ==
    IF Len(headers) = 0 THEN ""
    ELSE TrimEnd(Stringify(<<headers>> \o rows, delimiter))

\* occurrences of `c` in `line` outside the spans a double quote toggles
RECURSIVE CountOutsideQuotes(_, _, _, _)
CountOutsideQuotes(line, c, i, inQuotes) ==
    IF i > Len(line) THEN 0
    ELSE IF Char(line, i) = "\"" THEN CountOutsideQuotes(line, c, i + 1, ~inQuotes)
    ELSE (IF ~inQuotes /\ Char(line, i) = c THEN 1 ELSE 0)
         + CountOutsideQuotes(line, c, i + 1, inQuotes)

RECURSIVE SumCounts(_, _)
SumCounts(lines, c) ==
    IF Len(lines) = 0 THEN 0
    ELSE CountOutsideQuotes(lines[1], c, 1, FALSE) + SumCounts(Tail(lines), c)

\* the number of lines detectDelimiter samples
SampleLines == 10

\* avgX >= avgY is countX >= countY, and avgX >= 1 is countX >= lines.length
detectDelimiter(text) ==
    LET all == Split(Trim(text), "\n")
        lines == SubSeq(all, 1, IF Len(all) < SampleLines THEN Len(all) ELSE SampleLines)
        comma == SumCounts(lines, ",")
        semi == SumCounts(lines, ";")
        tab == SumCounts(lines, "\t")
    IN  IF Len(lines) = 0 THEN ","
        ELSE IF tab >= Len(lines) /\ tab >= comma /\ tab >= semi THEN "\t"
        ELSE IF semi >= Len(lines) /\ semi >= comma THEN ";"
        ELSE ","

-----------------------------------------------------------------------------
(* utils/mapping.ts: the mapping model and its export *)

\* "" is the value a column's type select starts with ("--"): sourceType unset
DataTypes == {"string", "integer", "number", "boolean"}

DecimalSeparators == {".", ","}

\* interface Conversion
Conversion(sourceValue, targetValue) ==
    [sourceValue |-> sourceValue, targetValue |-> targetValue]

\* interface ColumnMapping; `transformation` is JUndefined when the property is absent
ColumnMapping(sourceColumn, sourceType, targetColumn, conversions, transformation, include) ==
    [sourceColumn |-> sourceColumn, sourceType |-> sourceType,
     targetColumn |-> targetColumn, conversions |-> conversions,
     transformation |-> transformation, include |-> include]

\* the loop without the include test of line 63: every column is written
RECURSIVE ExportLoopOfAll(_, _)
ExportLoopOfAll(ms, objs) ==
    IF Len(ms) = 0 THEN objs
    ELSE LET m == ms[1]
         IN  ExportLoopOfAll(Tail(ms),
                 [mappings |-> Put(objs.mappings, m.sourceColumn, JStr(m.targetColumn)),
                  types |-> IF m.sourceType # "string"
                            THEN Put(objs.types, m.sourceColumn, JStr(m.sourceType))
                            ELSE objs.types,
                  transformations |->
                      IF ~Falsy(m.transformation)
                      THEN Put(objs.transformations, m.sourceColumn, m.transformation)
                      ELSE objs.transformations])

\* the three objects the loop of exportMappingConfig fills, column by column
RECURSIVE ExportLoop(_, _)
ExportLoop(ms, objs) ==
    IF Len(ms) = 0 THEN objs
    ELSE LET m == ms[1]
             withMapping == Put(objs.mappings, m.sourceColumn, JStr(m.targetColumn))
             withType ==
                 IF m.sourceType # "string"
                 THEN Put(objs.types, m.sourceColumn, JStr(m.sourceType))
                 ELSE objs.types
             withTransformation ==
                 IF ~Falsy(m.transformation)
                 THEN Put(objs.transformations, m.sourceColumn, m.transformation)
                 ELSE objs.transformations
         IN  IF ~m.include THEN ExportLoop(Tail(ms), objs)
             ELSE ExportLoop(Tail(ms),
                             [mappings |-> withMapping, types |-> withType,
                              transformations |-> withTransformation])

exportMappingConfig(ms, inDelimiter, outDelimiter, decimal) ==
    LET objs == ExportLoop(ms, [mappings |-> JObj(<<>>), types |-> JObj(<<>>),
                                transformations |-> JObj(<<>>)])
        config == << <<"version", JStr("1.0")>>,
                     <<"inputDelimiter", JStr(inDelimiter)>>,
                     <<"outputDelimiter", JStr(outDelimiter)>>,
                     <<"decimalSeparator", JStr(decimal)>>,
                     <<"mappings", objs.mappings>> >>
        withTypes ==
            IF Len(objs.types.v) > 0
            THEN Append(config, <<"typeTransformations", objs.types>>) ELSE config
    IN  JObj(IF Len(objs.transformations.v) > 0
             THEN Append(withTypes, <<"transformations", objs.transformations>>)
             ELSE withTypes)

\* JSON.parse(JSON.stringify(x)): a property whose value is undefined is not written
RECURSIVE JsonRoundTrip(_)
JsonRoundTrip(x) ==
    IF x.t = "obj"
    THEN LET kept == SelectSeq(x.v, LAMBDA e : e[2].t # "undefined")
         IN  JObj([i \in 1..Len(kept) |-> <<kept[i][1], JsonRoundTrip(kept[i][2])>>])
    ELSE IF x.t = "arr"
    THEN JArr([i \in 1..Len(x.v) |->
                 IF x.v[i].t = "undefined" THEN JNull ELSE JsonRoundTrip(x.v[i])])
    ELSE x

\* serializeMappingConfig, read back by JSON.parse
serializeMappingConfig(config) == JsonRoundTrip(config)

-----------------------------------------------------------------------------
(* islands/CSVMapper.tsx: validateAndApplyMapping *)

\* `${x}` in a template literal
TemplateString(x) ==
    CASE x.t = "str" -> x.v
      [] x.t = "num" -> NatToString(x.v)
      [] x.t = "undefined" -> "undefined"
      [] x.t = "null" -> "null"
      [] x.t = "arr" -> ""
      [] OTHER -> "[object Object]"

validTypes == <<"string", "integer", "number", "boolean">>
validDelimiters == <<",", ";", "\t">>
validTransformations == <<"uppercase", "lowercase", "trim", "date">>
validDecimalSeparators == <<".", ",">>

\* list.includes(x) for a list of strings: a value that is no string is not in it
IncludesValue(list, x) == x.t = "str" /\ x.v \in Range(list)

\* the first entry of an object the test rejects, 0 when there is none; `bad`
\* tells of each entry whether the test rejects its value
FirstEntry(bad) ==
    IF \E i \in 1..Len(bad) : bad[i]
    THEN CHOOSE i \in 1..Len(bad) : bad[i] /\ \A j \in 1..(i - 1) : ~bad[j]
    ELSE 0

BadTypeTransformation(transType) ==
    transType.t # "str" \/ ~IncludesValue(validTypes, transType)

\* line 510: isValid
IsValidTransformation(trans) ==
    \/ IncludesValue(validTransformations, trans)
    \/ StartsWith(trans.v, "dateFormat:")
    \/ StartsWith(trans.v, "date:")

BadTransformation(trans) == trans.t # "str" \/ ~IsValidTransformation(trans)

\* The signals validateAndApplyMapping writes, with how the call ended: `ok` when
\* it returned true, `threw` when it raised.  A rejection writes the message.
Rejected(st, message) == [st EXCEPT !.importError = JStr(message)]

\* Object.entries(null) raises a TypeError out of validateAndApplyMapping
Raised(st) == [st EXCEPT !.threw = TRUE]

\* lines 566-592: the mapping list rebuilt over the headers of the loaded table
RebuildMappings(obj, headers) ==
    LET mappingsObj == Get(obj, "mappings")
        orEmpty(x) == IF Falsy(x) THEN JObj(<<>>) ELSE x
        typeTransformationsObj == orEmpty(Get(obj, "typeTransformations"))
        transformationsObj == orEmpty(Get(obj, "transformations"))
        valueConversionsObj == orEmpty(Get(obj, "valueConversions"))
    IN  [i \in 1..Len(headers) |->
            LET header == headers[i]
                isIncluded == HasKey(mappingsObj, header)
                transformationType == Get(typeTransformationsObj, header)
                valueConvMap == orEmpty(Get(valueConversionsObj, header))
                entries == Entries(valueConvMap)
            IN  ColumnMapping(
                    header,
                    IF Falsy(transformationType) THEN "" ELSE transformationType.v,
                    IF isIncluded THEN Get(mappingsObj, header).v ELSE header,
                    [k \in 1..Len(entries) |-> Conversion(entries[k][1], entries[k][2])],
                    Get(transformationsObj, header),
                    isIncluded)]

\* lines 555-594: every check passed
Applied(obj, headers, st) ==
    [st EXCEPT
        !.inputDelimiter =
            IF ~Falsy(Get(obj, "inputDelimiter")) THEN Get(obj, "inputDelimiter").v ELSE @,
        !.outputDelimiter =
            IF ~Falsy(Get(obj, "outputDelimiter")) THEN Get(obj, "outputDelimiter").v ELSE @,
        !.decimalSeparator =
            IF ~Falsy(Get(obj, "decimalSeparator")) THEN Get(obj, "decimalSeparator").v ELSE @,
        !.mappings = RebuildMappings(obj, headers),
        !.importSuccess =
            JStr("Imported " \o NatToString(Len(Keys(Get(obj, "mappings"))))
                 \o " mapping(s)"),
        !.ok = TRUE]

\* the header check after the settings and the list were written: the order
\* of lines 536-553 and 555-594 exchanged
CheckHeadersAfterApply(obj, headers, st) ==
    LET keys == Keys(Get(obj, "mappings"))
        missingHeaders == SelectSeq(keys, LAMBDA source : source \notin Range(headers))
        written == [Applied(obj, headers, st) EXCEPT !.ok = FALSE, !.importSuccess = JNull]
    IN  IF Len(headers) = 0
        THEN Rejected(written, "No CSV loaded. Please parse a CSV file first.")
        ELSE IF Len(missingHeaders) > 0
        THEN Rejected(written, "Mapping references columns not in source CSV: "
                               \o Join(missingHeaders, ", "))
        ELSE Applied(obj, headers, st)

\* lines 536-553: a table is loaded, and every key of mappings is one of its headers
CheckHeaders(obj, headers, st) ==
    LET keys == Keys(Get(obj, "mappings"))
        missingHeaders == SelectSeq(keys, LAMBDA source : source \notin Range(headers))
    IN  IF Len(headers) = 0
        THEN Rejected(st, "No CSV loaded. Please parse a CSV file first.")
        ELSE IF Len(missingHeaders) > 0
        THEN Rejected(st, "Mapping references columns not in source CSV: "
                      \o Join(missingHeaders, ", "))
        ELSE Applied(obj, headers, st)

\* lines 520-534
CheckDelimiters(obj, headers, st) ==
    IF /\ Get(obj, "inputDelimiter").t # "undefined"
       /\ ~IncludesValue(validDelimiters, Get(obj, "inputDelimiter"))
    THEN Rejected(st, "Invalid 'inputDelimiter': must be one of: comma, semicolon, tab")
    ELSE IF /\ Get(obj, "outputDelimiter").t # "undefined"
            /\ ~IncludesValue(validDelimiters, Get(obj, "outputDelimiter"))
    THEN Rejected(st, "Invalid 'outputDelimiter': must be one of: comma, semicolon, tab")
    ELSE IF /\ Get(obj, "decimalSeparator").t # "undefined"
            /\ ~IncludesValue(validDecimalSeparators, Get(obj, "decimalSeparator"))
    THEN Rejected(st, "Invalid 'decimalSeparator': must be one of: . (period), , (comma)")
    ELSE CheckHeaders(obj, headers, st)

\* lines 495-518
CheckTransformations(obj, headers, st) ==
    LET transformations == Get(obj, "transformations")
        bad == FirstEntry([i \in 1..Len(Entries(transformations)) |->
                              BadTransformation(Entries(transformations)[i][2])])
        source == Entries(transformations)[bad][1]
    IN  IF transformations.t = "undefined"
        THEN CheckDelimiters(obj, headers, st)
        ELSE IF ~TypeofObject(transformations) \/ transformations.t = "arr"
        THEN Rejected(st, "Invalid 'transformations': must be an object")
        ELSE IF transformations.t = "null" THEN Raised(st)
        ELSE IF bad = 0
        THEN CheckDelimiters(obj, headers, st)
        ELSE IF Entries(transformations)[bad][2].t # "str"
        THEN Rejected(st, "Transformation '" \o source \o "': must be a string")
        ELSE Rejected(st, "Transformation '" \o source \o "': must be one of: "
                      \o Join(validTransformations, ", ")
                      \o ", dateFormat:FORMAT, or date[:sourceFormat][:targetFormat]")

\* lines 479-493
CheckTypeTransformations(obj, headers, st) ==
    LET typeTransformations == Get(obj, "typeTransformations")
        bad == FirstEntry([i \in 1..Len(Entries(typeTransformations)) |->
                              BadTypeTransformation(Entries(typeTransformations)[i][2])])
    IN  IF typeTransformations.t = "undefined"
        THEN CheckTransformations(obj, headers, st)
        ELSE IF ~TypeofObject(typeTransformations) \/ typeTransformations.t = "arr"
        THEN Rejected(st, "Invalid 'typeTransformations': must be an object")
        ELSE IF typeTransformations.t = "null" THEN Raised(st)
        ELSE IF bad = 0
        THEN CheckTransformations(obj, headers, st)
        ELSE Rejected(st, "Type transformation '" \o Entries(typeTransformations)[bad][1]
                      \o "': must be one of: " \o Join(validTypes, ", "))

\* lines 471-477
CheckMappingTargets(obj, headers, st) ==
    LET entries == Entries(Get(obj, "mappings"))
        bad == FirstEntry([i \in 1..Len(entries) |-> entries[i][2].t # "str"])
    IN  IF bad = 0
        THEN CheckTypeTransformations(obj, headers, st)
        ELSE Rejected(st, "Mapping '" \o entries[bad][1] \o "': target must be a string")

\* lines 450-469, after lines 447-448 cleared both messages
CheckDocument(config, headers, st) ==
    IF Falsy(config) \/ ~TypeofObject(config)
    THEN Rejected(st, "Invalid JSON: expected an object")
    ELSE IF Get(config, "version") # JStr("1.0")
    THEN Rejected(st, "Unsupported version: " \o TemplateString(Get(config, "version"))
                      \o ". Expected \"1.0\"")
    ELSE IF \/ Falsy(Get(config, "mappings"))
            \/ ~TypeofObject(Get(config, "mappings"))
            \/ Get(config, "mappings").t = "arr"
    THEN Rejected(st, "Invalid mapping: 'mappings' must be an object")
    ELSE CheckMappingTargets(config, headers, st)

\* validateAndApplyMapping(config) over the table with these headers, from the
\* signals `signals`: the signals it leaves, and how it ended
validateAndApplyMapping(config, headers, signals) ==
    CheckDocument(config, headers,
                  [mappings |-> signals.mappings,
                   inputDelimiter |-> signals.inputDelimiter,
                   outputDelimiter |-> signals.outputDelimiter,
                   decimalSeparator |-> signals.decimalSeparator,
                   importError |-> JNull, importSuccess |-> JNull,
                   ok |-> FALSE, threw |-> FALSE])

-----------------------------------------------------------------------------
(* utils/mapping.ts: numbers.  A number is NaN or an exact decimal              *)
(* [neg, int, frac]: its sign and the digits before and after the point.  The  *)
(* cell values of the model have few digits and no exponent, so the double     *)
(* parseFloat returns is that decimal and toString prints it in plain notation.*)

NaN == [nan |-> TRUE]

IsDigit(c) == Len(c) = 1 /\ IndexOf("0123456789", c) > 0

RECURSIVE DigitPrefix(_)
DigitPrefix(s) ==
    IF Len(s) > 0 /\ IsDigit(Char(s, 1))
    THEN Char(s, 1) \o DigitPrefix(Slice(s, 1)) ELSE ""

RECURSIVE RemoveAll(_, _)
RemoveAll(s, c) ==
    IF Len(s) = 0 THEN ""
    ELSE (IF Char(s, 1) = c THEN "" ELSE Char(s, 1)) \o RemoveAll(Slice(s, 1), c)

\* s.replace(c, d): the first occurrence only
ReplaceFirst(s, c, d) ==
    LET i == IndexOf(s, c)
    IN  IF i = 0 THEN s ELSE SubSeq(s, 1, i - 1) \o d \o Slice(s, i)

\* parseFloat: leading white space, a sign, then the longest decimal literal
parseFloat(text) ==
    LET s == TrimStart(text)
        signed == Len(s) > 0 /\ Char(s, 1) \in {"+", "-"}
        body == IF signed THEN Slice(s, 1) ELSE s
        int == DigitPrefix(body)
        afterInt == Slice(body, Len(int))
        frac == IF StartsWith(afterInt, ".") THEN DigitPrefix(Slice(afterInt, 1)) ELSE ""
    IN  IF int = "" /\ frac = "" THEN NaN
        ELSE [nan |-> FALSE, neg |-> signed /\ Char(s, 1) = "-", int |-> int, frac |-> frac]

\* a parse that reads every value under the "." convention
parseNumberPeriodOnly(value, decimal) ==
    IF value = "" \/ Trim(value) = "" THEN NaN
    ELSE parseFloat(RemoveAll(Trim(value), ","))

parseNumber(value, decimal) ==
    IF value = "" \/ Trim(value) = "" THEN NaN
    ELSE LET cleaned == IF decimal = ","
                        THEN ReplaceFirst(RemoveAll(Trim(value), "."), ",", ".")
                        ELSE RemoveAll(Trim(value), ",")
         IN  parseFloat(cleaned)

RECURSIVE StringToNat(_)
StringToNat(digits) ==
    IF Len(digits) = 0 THEN 0
    ELSE 10 * StringToNat(SubSeq(digits, 1, Len(digits) - 1))
         + (IndexOf("0123456789", Char(digits, Len(digits))) - 1)

RECURSIVE StripTrailingZeros(_)
StripTrailingZeros(digits) ==
    IF Len(digits) > 0 /\ Char(digits, Len(digits)) = "0"
    THEN StripTrailingZeros(SubSeq(digits, 1, Len(digits) - 1)) ELSE digits

\* Number.prototype.toString
NumberToString(num) ==
    LET int == NatToString(StringToNat(num.int))
        frac == StripTrailingZeros(num.frac)
        zero == int = "0" /\ frac = ""
    IN  (IF num.neg /\ ~zero THEN "-" ELSE "")
        \o int \o (IF frac = "" THEN "" ELSE "." \o frac)

formatNumber(num) == IF num.nan THEN "" ELSE NumberToString(num)

\* Math.round(num).toString(): halves go up, towards plus infinity
RoundToString(num) ==
    LET int == StringToNat(num.int)
        frac == StripTrailingZeros(num.frac)
        tenths == IF frac = "" THEN 0 ELSE StringToNat(Char(frac, 1))
        up == tenths >= 5
        \* below zero the half itself rounds towards zero
        down == tenths > 5 \/ (tenths = 5 /\ Len(frac) > 1)
        rounded == IF num.neg THEN (IF down THEN int + 1 ELSE int)
                   ELSE (IF up THEN int + 1 ELSE int)
    IN  (IF num.neg /\ rounded > 0 THEN "-" ELSE "") \o NatToString(rounded)

-----------------------------------------------------------------------------
(* utils/mapping.ts: the encoding of an uploaded file.  A buffer is a sequence *)
(* of bytes 0..255; a read past its end is undefined, here -1, which equals no *)
(* byte.  The decoded text is kept as the decoder and the bytes it was given.  *)

ByteAt(bytes, i) == IF i \in 1..Len(bytes) THEN bytes[i] ELSE -1

\* isValidUtf8, with i counted from 1
RECURSIVE isValidUtf8From(_, _)
isValidUtf8From(bytes, i) ==
    IF i > Len(bytes) THEN TRUE
    ELSE IF bytes[i] <= 127 THEN isValidUtf8From(bytes, i + 1)
    ELSE IF bytes[i] >= 194 /\ bytes[i] <= 223
    THEN IF i + 1 > Len(bytes) \/ bytes[i + 1] < 128 \/ bytes[i + 1] > 191 THEN FALSE
         ELSE isValidUtf8From(bytes, i + 2)
    ELSE IF bytes[i] >= 224 /\ bytes[i] <= 239
    THEN IF i + 2 > Len(bytes) THEN FALSE
         ELSE IF bytes[i] = 224 /\ (bytes[i + 1] < 160 \/ bytes[i + 1] > 191) THEN FALSE
         ELSE IF bytes[i + 1] < 128 \/ bytes[i + 1] > 191
                 \/ bytes[i + 2] < 128 \/ bytes[i + 2] > 191 THEN FALSE
         ELSE isValidUtf8From(bytes, i + 3)
    ELSE IF bytes[i] >= 240 /\ bytes[i] <= 244
    THEN IF i + 3 > Len(bytes) THEN FALSE ELSE isValidUtf8From(bytes, i + 4)
    ELSE FALSE

isValidUtf8(bytes) == isValidUtf8From(bytes, 1)

analyzeHighBytes(bytes) ==
    [hasHighBytes |-> \E j \in 1..Len(bytes) : bytes[j] >= 128,
     hasWindows1252Specific |-> \E j \in 1..Len(bytes) : bytes[j] >= 128 /\ bytes[j] <= 159]

\* new TextDecoder(label).decode(buffer): neither label is refused and a
\* decoder that is not fatal raises on no bytes
Decoded(label, bytes, encoding) ==
    [text |-> [decoder |-> label, bytes |-> bytes], encoding |-> encoding]

detectAndDecodeText(bytes) ==
    IF ByteAt(bytes, 1) = 239 /\ ByteAt(bytes, 2) = 187 /\ ByteAt(bytes, 3) = 191
    THEN Decoded("utf-8", bytes, "UTF-8 (BOM)")
    ELSE IF ByteAt(bytes, 1) = 255 /\ ByteAt(bytes, 2) = 254
    THEN Decoded("utf-16le", bytes, "UTF-16 LE")
    ELSE IF ByteAt(bytes, 1) = 254 /\ ByteAt(bytes, 2) = 255
    THEN Decoded("utf-16be", bytes, "UTF-16 BE")
    ELSE IF isValidUtf8(bytes)
    THEN Decoded("utf-8", bytes, "UTF-8")
    ELSE IF analyzeHighBytes(bytes).hasHighBytes
    THEN IF analyzeHighBytes(bytes).hasWindows1252Specific
         THEN Decoded("windows-1252", bytes, "Windows-1252 (converted to UTF-8)")
         ELSE Decoded("iso-8859-1", bytes, "ISO-8859-1/Latin-1 (converted to UTF-8)")
    ELSE Decoded("utf-8", bytes, "ASCII/UTF-8")

-----------------------------------------------------------------------------
(* utils/date.ts over @std/datetime.  A date is [year, month, day, hour,       *)
(* minute, second]; the formats of the model are written with the tokens yyyy, *)
(* MM, dd, HH, mm, ss and separator characters.                                *)

DATE_FORMATS == <<"yyyy-MM-dd", "dd/MM/yyyy", "dd-MM-yyyy", "dd.MM.yyyy", "yyyy/MM/dd">>

NoDate == [none |-> TRUE]

DateTokens == <<"yyyy", "MM", "dd", "HH", "mm", "ss">>

\* the token a format starts with, "" when it starts with a literal character
TokenAt(formatStr) ==
    IF \E i \in 1..Len(DateTokens) : StartsWith(formatStr, DateTokens[i])
    THEN DateTokens[CHOOSE i \in 1..Len(DateTokens) : StartsWith(formatStr, DateTokens[i])]
    ELSE ""

AllDigits(s) == \A i \in 1..Len(s) : IsDigit(Char(s, i))

DaysInMonth(year, month) ==
    IF month \in {4, 6, 9, 11} THEN 30
    ELSE IF month # 2 THEN 31
    ELSE IF (year % 4 = 0 /\ year % 100 # 0) \/ year % 400 = 0 THEN 29
    ELSE 28

\* the digits a token reads: yyyy takes up to four, as many as there are, and
\* every other token exactly two
TokenDigits(value, token) ==
    IF token = "yyyy"
    THEN LET digits == DigitPrefix(value)
         IN  SubSeq(digits, 1, IF Len(digits) < 4 THEN Len(digits) ELSE 4)
    ELSE IF Len(value) >= 2 /\ AllDigits(SubSeq(value, 1, 2)) THEN SubSeq(value, 1, 2)
    ELSE ""

\* parse(value, formatStr): token by token, every character of the value read
RECURSIVE ParseParts(_, _, _)
ParseParts(value, formatStr, date) ==
    IF Len(formatStr) = 0
    THEN IF Len(value) = 0 THEN date ELSE NoDate
    ELSE LET token == TokenAt(formatStr)
             text == TokenDigits(value, token)
             n == StringToNat(text)
         IN  IF token = ""
             THEN IF StartsWith(value, Char(formatStr, 1))
                  THEN ParseParts(Slice(value, 1), Slice(formatStr, 1), date)
                  ELSE NoDate
             ELSE IF text = "" THEN NoDate
             ELSE ParseParts(Slice(value, Len(text)), Slice(formatStr, Len(token)),
                      CASE token = "yyyy" -> [date EXCEPT !.year = n]
                        [] token = "MM" -> [date EXCEPT !.month = n]
                        [] token = "dd" -> [date EXCEPT !.day = n]
                        [] token = "HH" -> [date EXCEPT !.hour = n]
                        [] token = "mm" -> [date EXCEPT !.minute = n]
                        [] OTHER -> [date EXCEPT !.second = n])

ValidDate(date) ==
    /\ date.month \in 1..12
    /\ date.day \in 1..DaysInMonth(date.year, date.month)
    /\ date.hour \in 0..23 /\ date.minute \in 0..59 /\ date.second \in 0..59

tryParseDate(value, formatStr) ==
    IF value = "" \/ formatStr = "" THEN NoDate
    ELSE LET date == ParseParts(value, formatStr,
                         [none |-> FALSE, year |-> 1970, month |-> 1, day |-> 1,
                          hour |-> 0, minute |-> 0, second |-> 0])
         IN  IF date.none THEN NoDate
             ELSE IF ValidDate(date) THEN date ELSE NoDate

Pad(n, width) ==
    LET digits == NatToString(n)
    IN  SubSeq("0000", 1, IF Len(digits) < width THEN width - Len(digits) ELSE 0) \o digits

\* format(date, formatStr)
RECURSIVE FormatDate(_, _)
FormatDate(date, formatStr) ==
    IF Len(formatStr) = 0 THEN ""
    ELSE LET token == TokenAt(formatStr)
         IN  IF token = ""
             THEN Char(formatStr, 1) \o FormatDate(date, Slice(formatStr, 1))
             ELSE (CASE token = "yyyy" -> Pad(date.year, 4)
                     [] token = "MM" -> Pad(date.month, 2)
                     [] token = "dd" -> Pad(date.day, 2)
                     [] token = "HH" -> Pad(date.hour, 2)
                     [] token = "mm" -> Pad(date.minute, 2)
                     [] OTHER -> Pad(date.second, 2))
                  \o FormatDate(date, Slice(formatStr, Len(token)))

transformDate(value, sourceFormat, targetFormat) ==
    LET date == tryParseDate(value, sourceFormat)
    IN  IF date.none THEN "" ELSE FormatDate(date, targetFormat)

\* a detection that keeps the last format that parses, not the first
parseDateAutoDetectLast(value) ==
    IF value = "" THEN NoDate
    ELSE IF \E i \in 1..Len(DATE_FORMATS) : ~tryParseDate(value, DATE_FORMATS[i]).none
    THEN tryParseDate(value, DATE_FORMATS[
             CHOOSE i \in 1..Len(DATE_FORMATS) :
                 /\ ~tryParseDate(value, DATE_FORMATS[i]).none
                 /\ \A j \in (i + 1)..Len(DATE_FORMATS) :
                        tryParseDate(value, DATE_FORMATS[j]).none])
    ELSE NoDate

parseDateAutoDetect(value) ==
    IF value = "" THEN NoDate
    ELSE IF \E i \in 1..Len(DATE_FORMATS) : ~tryParseDate(value, DATE_FORMATS[i]).none
    THEN tryParseDate(value, DATE_FORMATS[
             CHOOSE i \in 1..Len(DATE_FORMATS) :
                 /\ ~tryParseDate(value, DATE_FORMATS[i]).none
                 /\ \A j \in 1..(i - 1) : tryParseDate(value, DATE_FORMATS[j]).none])
    ELSE NoDate

\* a formatting that gives a value that is no date back as it came
formatDateAutoDetectOrValue(value, targetFormat) ==
    LET date == parseDateAutoDetect(value)
    IN  IF date.none THEN value ELSE FormatDate(date, targetFormat)

formatDateAutoDetect(value, targetFormat) ==
    LET date == parseDateAutoDetect(value)
    IN  IF date.none THEN "" ELSE FormatDate(date, targetFormat)

-----------------------------------------------------------------------------
(* CSVMapper.tsx: the cell pipeline.  A cell is a string; the targetValue of a *)
(* conversion and the transformation of a mapping are whatever JSON value the  *)
(* imported document held, so the pipeline works on tagged values.             *)

\* the outcome of an expression that raises a TypeError
Thrown == [t |-> "thrown"]

TrueWords == {"true", "t", "yes", "y", "1"}
FalseWords == {"false", "f", "no", "n", "0"}

\* the loop of convertValue: the index of the first conversion that matches, or 0
RECURSIVE FirstMatch(_, _, _)
FirstMatch(conversions, value, i) ==
    IF i > Len(conversions) THEN 0
    ELSE IF ToLowerCase(conversions[i].sourceValue) = ToLowerCase(value) THEN i
    ELSE FirstMatch(conversions, value, i + 1)

\* the boolean coercion of lines 51-54 tried before the loop of lines 44-48
convertValueTypeFirst(value, sourceType, conversions, decimal) ==
    LET match == FirstMatch(conversions, value, 1)
    IN  IF sourceType = "boolean" /\ ToLowerCase(value) \in TrueWords THEN JStr("true")
        ELSE IF sourceType = "boolean" /\ ToLowerCase(value) \in FalseWords
        THEN JStr("false")
        ELSE IF match > 0 THEN conversions[match].targetValue
        ELSE JStr(value)

\* convertValue of CSVMapper.tsx, the same text as utils/transformation.ts has
convertValue(value, sourceType, conversions, decimal) ==
    LET match == FirstMatch(conversions, value, 1)
        lower == ToLowerCase(value)
        num == parseNumber(value, decimal)
    IN  IF match > 0 THEN conversions[match].targetValue
        ELSE JStr(CASE sourceType = "boolean" ->
                           IF lower \in TrueWords THEN "true"
                           ELSE IF lower \in FalseWords THEN "false"
                           ELSE value
                    [] sourceType = "integer" ->
                           IF num.nan THEN value ELSE RoundToString(num)
                    [] sourceType = "number" ->
                           IF formatNumber(num) = "" THEN value ELSE formatNumber(num)
                    [] OTHER -> value)

\* the date helpers return "" for a value that is not a string: a falsy one is
\* turned down at once, and parse raises inside the try for any other
DateOf(value, targetFormat) ==
    JStr(IF value.t # "str" THEN "" ELSE formatDateAutoDetect(value.v, targetFormat))

\* a dispatch that knows the text operations and "date" only
applyTransformationKeywords(value, transformation) ==
    IF Falsy(transformation) \/ transformation.t # "str" \/ value.t # "str" THEN value
    ELSE CASE transformation.v = "uppercase" -> JStr(ToUpperCase(value.v))
           [] transformation.v = "lowercase" -> JStr(ToLowerCase(value.v))
           [] transformation.v = "trim" -> JStr(Trim(value.v))
           [] transformation.v = "date" -> DateOf(value, "yyyy-MM-dd")
           [] OTHER -> value

applyTransformation(value, transformation) ==
    IF Falsy(transformation) THEN value
    ELSE IF transformation.t # "str" THEN Thrown
    ELSE LET name == transformation.v
             parts == Split(Slice(name, 5), ":")
             orDefault(formatStr) == IF formatStr = "" THEN "yyyy-MM-dd" ELSE formatStr
         IN  CASE name = "uppercase" ->
                      IF value.t # "str" THEN Thrown ELSE JStr(ToUpperCase(value.v))
               [] name = "lowercase" ->
                      IF value.t # "str" THEN Thrown ELSE JStr(ToLowerCase(value.v))
               [] name = "trim" ->
                      IF value.t # "str" THEN Thrown ELSE JStr(Trim(value.v))
               [] name = "date" -> DateOf(value, "yyyy-MM-dd")
               [] OTHER ->
                      IF StartsWith(name, "dateFormat:") THEN DateOf(value, Slice(name, 11))
                      ELSE IF StartsWith(name, "date:")
                      THEN IF Len(parts) = 1 THEN DateOf(value, parts[1])
                           ELSE JStr(IF value.t # "str" THEN ""
                                     ELSE transformDate(value.v, orDefault(parts[1]),
                                                        orDefault(parts[2])))
                      ELSE value

\* utils/transformation.ts: transformValue is convertValue word for word, and
\* its applyTransformation is the one above
transformValue(value, sourceType, conversions, decimal) ==
    convertValue(value, sourceType, conversions, decimal)

\* output.replace(/"/g, '""')
RECURSIVE DoubleQuotes(_)
DoubleQuotes(s) ==
    IF Len(s) = 0 THEN ""
    ELSE (IF Char(s, 1) = "\"" THEN "\"\"" ELSE Char(s, 1)) \o DoubleQuotes(Slice(s, 1))

\* lines 173-175 without the test of the sourceType
OutputValueOfAnyType(sourceType, transformed) ==
    IF transformed = JStr("true") THEN JStr("1")
    ELSE IF transformed = JStr("false") THEN JStr("0")
    ELSE transformed

\* lines 173-175: what is written for a cell, before quoting
OutputValue(sourceType, transformed) ==
    IF sourceType = "boolean"
    THEN IF transformed = JStr("true") THEN JStr("1")
         ELSE IF transformed = JStr("false") THEN JStr("0")
         ELSE transformed
    ELSE transformed

\* lines 162-179: the field one included mapping writes for one row
OutputField(row, mapping, headers, delimiter, decimal) ==
    LET colIndex == SeqIndexOf(headers, mapping.sourceColumn)
        value == IF colIndex <= Len(row) THEN row[colIndex] ELSE ""
        converted == convertValue(value, mapping.sourceType, mapping.conversions, decimal)
        transformed == applyTransformation(converted, mapping.transformation)
        output == OutputValue(mapping.sourceType, transformed)
    IN  IF colIndex = 0 THEN JStr("")
        ELSE IF output.t # "str" THEN Thrown
        ELSE IF Includes(output.v, delimiter) \/ Includes(output.v, "\"")
        THEN JStr("\"" \o DoubleQuotes(output.v) \o "\"")
        ELSE output

\* generateOutputCSV: the text, or Thrown when a field raises
generateOutputCSV(csv, ms, delimiter, decimal) ==
    LET includedMappings == SelectSeq(ms, LAMBDA m : m.include)
        headerLine == Join([i \in 1..Len(includedMappings) |->
                               includedMappings[i].targetColumn], delimiter)
        fields == [r \in 1..Len(csv.rows) |->
                      [i \in 1..Len(includedMappings) |->
                          OutputField(csv.rows[r], includedMappings[i], csv.headers,
                                      delimiter, decimal)]]
        dataLines == [r \in 1..Len(csv.rows) |->
                         Join([i \in 1..Len(includedMappings) |-> fields[r][i].v],
                              delimiter)]
    IN  IF Len(includedMappings) = 0 THEN JStr("")
        ELSE IF \E r \in 1..Len(csv.rows) : \E i \in 1..Len(includedMappings) :
                    fields[r][i] = Thrown
        THEN Thrown
        ELSE JStr(Join(<<headerLine>> \o dataLines, "\n"))

\* the computed signal outputCSV, lines 217-220
outputCSV ==
    IF Len(parsedCSV.headers) = 0 THEN JStr("")
    ELSE generateOutputCSV(parsedCSV, mappings, outputDelimiter, decimalSeparator)

-----------------------------------------------------------------------------
(* The text of the import box, as JSON.parse sees it: empty, text that is not  *)
(* JSON, or the text of a JSON document.                                       *)

NoText == [kind |-> "empty"]
SyntaxErrorText == [kind |-> "malformed"]
JsonText(doc) == [kind |-> "json", doc |-> doc]

\* no utility function is called on its own: the page is all there is
NoCall == [fn |-> "none", round |-> 0]
NotCalled == [called |-> FALSE]

\* the signals after construction, lines 188-203
Constructed ==
    /\ inputCSV = ""
    /\ parsedCSV = EmptyCSV
    /\ mappings = <<>>
    /\ inputDelimiter = ";"
    /\ outputDelimiter = ";"
    /\ decimalSeparator = ","
    /\ importJsonText = NoText
    /\ importError = JNull
    /\ importSuccess = JNull
    /\ importJsonUrl = ""
    /\ examples = <<>>
    /\ exampleLoading = FALSE
    /\ fetches = <<>>

\* the state after construction of the page
Init ==
    /\ Constructed
    /\ args = NoCall
    /\ result = NotCalled

\* the input textarea, line 668
TypeInput(text) ==
    /\ inputCSV' = text
    /\ UNCHANGED <<parsedCSV, mappings, inputDelimiter, outputDelimiter,
                   decimalSeparator, importJsonText, importError, importSuccess>>
    /\ UNCHANGED <<args, result, importJsonUrl, examples, exampleLoading, fetches>>

\* lines 244-250
DefaultMapping(header) == ColumnMapping(header, "", header, <<>>, JUndefined, TRUE)

\* lines 233-251: new Map(...) keeps the last mapping of a name
MergeMappings(headers, existing) ==
    [i \in 1..Len(headers) |->
        LET same == {k \in 1..Len(existing) : existing[k].sourceColumn = headers[i]}
        IN  IF same = {} THEN DefaultMapping(headers[i])
            ELSE existing[CHOOSE k \in same : \A j \in same : j <= k]]

\* the Parse button, enabled when the input is not blank
handleParseCSV ==
    /\ Trim(inputCSV) # ""
    /\ LET detected == detectDelimiter(inputCSV)
           parsed == parseCSV(inputCSV, detected)
       IN  /\ inputDelimiter' = detected
           /\ parsedCSV' = parsed
           /\ mappings' = MergeMappings(parsed.headers, mappings)
    /\ UNCHANGED <<inputCSV, outputDelimiter, decimalSeparator, importJsonText,
                   importError, importSuccess>>
    /\ UNCHANGED <<args, result, importJsonUrl, examples, exampleLoading, fetches>>

handleInputDelimiterChange(newDelimiter) ==
    /\ inputDelimiter' = newDelimiter
    /\ IF Trim(inputCSV) # "" /\ Len(parsedCSV.headers) > 0
       THEN LET parsed == parseCSV(inputCSV, newDelimiter)
            IN  /\ parsedCSV' = parsed
                /\ mappings' = MergeMappings(parsed.headers, mappings)
       ELSE UNCHANGED <<parsedCSV, mappings>>
    /\ UNCHANGED <<inputCSV, outputDelimiter, decimalSeparator, importJsonText,
                   importError, importSuccess>>
    /\ UNCHANGED <<args, result, importJsonUrl, examples, exampleLoading, fetches>>

\* the output delimiter select, line 691
SelectOutputDelimiter(delimiter) ==
    /\ outputDelimiter' = delimiter
    /\ UNCHANGED <<inputCSV, parsedCSV, mappings, inputDelimiter, decimalSeparator,
                   importJsonText, importError, importSuccess>>
    /\ UNCHANGED <<args, result, importJsonUrl, examples, exampleLoading, fetches>>

\* the decimal separator select, line 703
SelectDecimalSeparator(separator) ==
    /\ decimalSeparator' = separator
    /\ UNCHANGED <<inputCSV, parsedCSV, mappings, inputDelimiter, outputDelimiter,
                   importJsonText, importError, importSuccess>>
    /\ UNCHANGED <<args, result, importJsonUrl, examples, exampleLoading, fetches>>

handleClear ==
    /\ inputCSV' = ""
    /\ parsedCSV' = EmptyCSV
    /\ mappings' = <<>>
    /\ importError' = JNull
    /\ importSuccess' = JNull
    /\ UNCHANGED <<inputDelimiter, outputDelimiter, decimalSeparator, importJsonText>>
    /\ UNCHANGED <<args, result, importJsonUrl, examples, exampleLoading, fetches>>

\* { ...a, ...updates } for records: the fields of updates replace those of a
Merge(a, updates) ==
    [f \in DOMAIN a |-> IF f \in DOMAIN updates THEN updates[f] ELSE a[f]]

\* the updates the row of a column sends: the checkbox always, the target input
\* and the type select while the column is included
updateMapping(index, updates) ==
    /\ index \in 1..Len(mappings)
    /\ "include" \in DOMAIN updates \/ mappings[index].include
    /\ mappings' = [mappings EXCEPT ![index] = Merge(@, updates)]
    /\ UNCHANGED <<inputCSV, parsedCSV, inputDelimiter, outputDelimiter,
                   decimalSeparator, importJsonText, importError, importSuccess>>
    /\ UNCHANGED <<args, result, importJsonUrl, examples, exampleLoading, fetches>>

\* the panel of a column is shown while the column is included
addConversion(mappingIndex) ==
    /\ mappingIndex \in 1..Len(mappings)
    /\ mappings[mappingIndex].include
    /\ Len(mappings[mappingIndex].conversions) < MaxConversions
    /\ mappings' = [mappings EXCEPT ![mappingIndex].conversions =
                        Append(@, Conversion("", JStr("")))]
    /\ UNCHANGED <<inputCSV, parsedCSV, inputDelimiter, outputDelimiter,
                   decimalSeparator, importJsonText, importError, importSuccess>>
    /\ UNCHANGED <<args, result, importJsonUrl, examples, exampleLoading, fetches>>

updateConversion(mappingIndex, convIndex, updates) ==
    /\ mappingIndex \in 1..Len(mappings)
    /\ mappings[mappingIndex].include
    /\ convIndex \in 1..Len(mappings[mappingIndex].conversions)
    /\ mappings' = [mappings EXCEPT ![mappingIndex].conversions[convIndex] =
                        Merge(@, updates)]
    /\ UNCHANGED <<inputCSV, parsedCSV, inputDelimiter, outputDelimiter,
                   decimalSeparator, importJsonText, importError, importSuccess>>
    /\ UNCHANGED <<args, result, importJsonUrl, examples, exampleLoading, fetches>>

\* conversions.splice(convIndex, 1)
removeConversion(mappingIndex, convIndex) ==
    /\ mappingIndex \in 1..Len(mappings)
    /\ mappings[mappingIndex].include
    /\ convIndex \in 1..Len(mappings[mappingIndex].conversions)
    /\ mappings' = [mappings EXCEPT ![mappingIndex].conversions =
                        SubSeq(@, 1, convIndex - 1) \o SubSeq(@, convIndex + 1, Len(@))]
    /\ UNCHANGED <<inputCSV, parsedCSV, inputDelimiter, outputDelimiter,
                   decimalSeparator, importJsonText, importError, importSuccess>>
    /\ UNCHANGED <<args, result, importJsonUrl, examples, exampleLoading, fetches>>

\* The list that was published when a handler was called, as it reads once the
\* handler has returned.  [...mappings.value] copies the array and none of the
\* column objects in it: updateMapping puts a new object into the copy, while
\* push, the assignment to conversions[convIndex] and splice act on the
\* conversions array of the column object both lists hold.
PublishedAfterUpdateMapping(index, updates) == mappings

PublishedAfterAddConversion(mappingIndex) ==
    [mappings EXCEPT ![mappingIndex].conversions = Append(@, Conversion("", JStr("")))]

PublishedAfterUpdateConversion(mappingIndex, convIndex, updates) ==
    [mappings EXCEPT ![mappingIndex].conversions[convIndex] = Merge(@, updates)]

PublishedAfterRemoveConversion(mappingIndex, convIndex) ==
    [mappings EXCEPT ![mappingIndex].conversions =
        SubSeq(@, 1, convIndex - 1) \o SubSeq(@, convIndex + 1, Len(@))]

\* getMappingConfig
getMappingConfig ==
    exportMappingConfig(mappings, inputDelimiter, outputDelimiter, decimalSeparator)

\* the import textarea, line 829; text is typed into the empty box
TypeImportText(text) ==
    /\ importJsonText = NoText
    /\ importJsonText' = text
    /\ UNCHANGED <<inputCSV, parsedCSV, mappings, inputDelimiter, outputDelimiter,
                   decimalSeparator, importError, importSuccess>>
    /\ UNCHANGED <<args, result, importJsonUrl, examples, exampleLoading, fetches>>

\* the import box emptied by hand
ClearImportText ==
    /\ importJsonText # NoText
    /\ importJsonText' = NoText
    /\ UNCHANGED <<inputCSV, parsedCSV, mappings, inputDelimiter, outputDelimiter,
                   decimalSeparator, importError, importSuccess>>
    /\ UNCHANGED <<args, result, importJsonUrl, examples, exampleLoading, fetches>>

\* copyMappingJson, and the copied text pasted into the empty import box
PasteMappingJson ==
    /\ importJsonText = NoText
    /\ importJsonText' = JsonText(serializeMappingConfig(getMappingConfig))
    /\ UNCHANGED <<inputCSV, parsedCSV, mappings, inputDelimiter, outputDelimiter,
                   decimalSeparator, importError, importSuccess>>
    /\ UNCHANGED <<args, result, importJsonUrl, examples, exampleLoading, fetches>>

\* the signals validateAndApplyMapping reads
Signals ==
    [mappings |-> mappings, inputDelimiter |-> inputDelimiter,
     outputDelimiter |-> outputDelimiter, decimalSeparator |-> decimalSeparator]

\* what validateAndApplyMapping does with the document in the import box
ImportOutcome == validateAndApplyMapping(importJsonText.doc, parsedCSV.headers, Signals)

\* the Import button, enabled when the box is not blank
importFromText ==
    /\ importJsonText # NoText
    /\ IF importJsonText = SyntaxErrorText
       THEN \* JSON.parse raises: the catch writes the one message
            /\ importError' = JStr("Invalid JSON syntax")
            /\ UNCHANGED <<mappings, inputDelimiter, outputDelimiter, decimalSeparator,
                           importJsonText, importSuccess>>
       ELSE /\ mappings' = ImportOutcome.mappings
            /\ inputDelimiter' = ImportOutcome.inputDelimiter
            /\ outputDelimiter' = ImportOutcome.outputDelimiter
            /\ decimalSeparator' = ImportOutcome.decimalSeparator
            /\ importSuccess' = ImportOutcome.importSuccess
            /\ importError' = IF ImportOutcome.threw THEN JStr("Invalid JSON syntax")
                              ELSE ImportOutcome.importError
            /\ importJsonText' = IF ImportOutcome.ok THEN NoText ELSE importJsonText
    /\ UNCHANGED <<inputCSV, parsedCSV>>
    /\ UNCHANGED <<args, result, importJsonUrl, examples, exampleLoading, fetches>>

-----------------------------------------------------------------------------
(* The asynchronous handlers.  A call of importFromUrl or loadExample runs to  *)
(* its await and is suspended there; it runs on when the fetch settles, and    *)
(* any other handler runs in between.  A fetch settles with a rejection, with  *)
(* a response that is not ok, or with a body: the text of a CSV, or what       *)
(* response.json() makes of it, SyntaxErrorText or JsonText(doc).              *)

NetworkError == [kind |-> "rejected"]
NotOk == [kind |-> "status"]
CsvBody(text) == [kind |-> "text", text |-> text]
Pending == [kind |-> "pending"]

\* err.message of the error a failed await raises, and of the TypeError out of
\* validateAndApplyMapping
ErrorMessage(response, csv) ==
    IF response = NetworkError THEN "Failed to fetch"
    ELSE IF response = NotOk
    THEN (IF csv THEN "Failed to load CSV: Not Found" ELSE "Failed to load mapping: Not Found")
    ELSE IF response = SyntaxErrorText THEN "Unexpected token"
    ELSE "Cannot convert undefined or null to object"

\* a call suspended at an await; `parsed` is the local of that name of the
\* loadExample of the Examples component, which reads it after its second await
Suspended(fn, await) ==
    [fn |-> fn, await |-> await, response |-> Pending, settled |-> 0, parsed |-> EmptyCSV]

\* the call ran to its end on this response, after those that settled before
Settle(i, response) ==
    [fetches EXCEPT ![i] =
        [@ EXCEPT !.await = "done", !.response = response,
                  !.settled = 1 + Cardinality({k \in 1..Len(fetches) :
                                                  fetches[k].await = "done"})]]

\* lines 205-215: the fetch of the examples index resolves
LoadExamplesIndex(ids) ==
    /\ examples = <<>>
    /\ examples' = ids
    /\ UNCHANGED <<inputCSV, parsedCSV, mappings, inputDelimiter, outputDelimiter,
                   decimalSeparator, importJsonText, importError, importSuccess,
                   args, result, importJsonUrl, exampleLoading, fetches>>

\* the URL input, line 854, shown with the import panel while a table is loaded
TypeImportUrl(url) ==
    /\ Len(parsedCSV.headers) > 0
    /\ importJsonUrl' = url
    /\ UNCHANGED <<inputCSV, parsedCSV, mappings, inputDelimiter, outputDelimiter,
                   decimalSeparator, importJsonText, importError, importSuccess,
                   args, result, examples, exampleLoading, fetches>>

\* importFromUrl up to its await, lines 608-617; the button is disabled while the
\* URL is blank
importFromUrl ==
    /\ Len(parsedCSV.headers) > 0
    /\ Trim(importJsonUrl) # ""
    /\ Len(fetches) < MaxFetches
    /\ importError' = JNull
    /\ importSuccess' = JNull
    /\ fetches' = Append(fetches, Suspended("importFromUrl", "response"))
    /\ UNCHANGED <<inputCSV, parsedCSV, mappings, inputDelimiter, outputDelimiter,
                   decimalSeparator, importJsonText, args, result, importJsonUrl,
                   examples, exampleLoading>>

\* what validateAndApplyMapping does with a fetched document
FetchedOutcome(doc) == validateAndApplyMapping(doc, parsedCSV.headers, Signals)

\* the signals after validateAndApplyMapping(doc) in a try block whose catch
\* writes `prefix` and the message of the error
ApplyFetched(doc, prefix) ==
    /\ mappings' = FetchedOutcome(doc).mappings
    /\ inputDelimiter' = FetchedOutcome(doc).inputDelimiter
    /\ outputDelimiter' = FetchedOutcome(doc).outputDelimiter
    /\ decimalSeparator' = FetchedOutcome(doc).decimalSeparator
    /\ importSuccess' = FetchedOutcome(doc).importSuccess
    /\ importError' = IF FetchedOutcome(doc).threw
                      THEN JStr(prefix \o ErrorMessage(JsonText(doc), FALSE))
                      ELSE FetchedOutcome(doc).importError

\* importFromUrlResumed for a page that drops the response of a call after
\* which importFromUrl was started again
importFromUrlResumedLatest(i, response) ==
    /\ i \in 1..Len(fetches)
    /\ fetches[i].fn = "importFromUrl"
    /\ fetches[i].await = "response"
    /\ fetches' = Settle(i, response)
    /\ IF \E k \in (i + 1)..Len(fetches) : fetches[k].fn = "importFromUrl"
       THEN UNCHANGED <<mappings, inputDelimiter, outputDelimiter, decimalSeparator,
                        importSuccess, importError, importJsonUrl>>
       ELSE IF response.kind = "json"
       THEN /\ ApplyFetched(response.doc, "Failed to fetch URL: ")
            /\ importJsonUrl' = IF FetchedOutcome(response.doc).ok THEN "" ELSE importJsonUrl
       ELSE /\ importError' = IF response = NotOk THEN JStr("Failed to fetch: 404 Not Found")
                              ELSE JStr("Failed to fetch URL: " \o ErrorMessage(response, FALSE))
            /\ UNCHANGED <<mappings, inputDelimiter, outputDelimiter, decimalSeparator,
                           importSuccess, importJsonUrl>>
    /\ UNCHANGED <<inputCSV, parsedCSV, importJsonText, args, result, examples,
                   exampleLoading>>

\* importFromUrl from its await on, lines 617-628
importFromUrlResumed(i, response) ==
    /\ i \in 1..Len(fetches)
    /\ fetches[i].fn = "importFromUrl"
    /\ fetches[i].await = "response"
    /\ fetches' = Settle(i, response)
    /\ IF response.kind = "json"
       THEN /\ ApplyFetched(response.doc, "Failed to fetch URL: ")
            /\ importJsonUrl' = IF FetchedOutcome(response.doc).ok THEN "" ELSE importJsonUrl
       ELSE /\ importError' = IF response = NotOk THEN JStr("Failed to fetch: 404 Not Found")
                              ELSE JStr("Failed to fetch URL: " \o ErrorMessage(response, FALSE))
            /\ UNCHANGED <<mappings, inputDelimiter, outputDelimiter, decimalSeparator,
                           importSuccess, importJsonUrl>>
    /\ UNCHANGED <<inputCSV, parsedCSV, importJsonText, args, result, examples,
                   exampleLoading>>

\* loadExample up to its first await, lines 288-298; the select is disabled
\* while an example is loading
loadExample(exampleId) ==
    /\ \E k \in 1..Len(examples) : examples[k] = exampleId
    /\ ~exampleLoading
    /\ Len(fetches) < MaxFetches
    /\ exampleLoading' = TRUE
    /\ importError' = JNull
    /\ importSuccess' = JNull
    /\ fetches' = Append(fetches, Suspended("loadExample", "csv"))
    /\ UNCHANGED <<inputCSV, parsedCSV, mappings, inputDelimiter, outputDelimiter,
                   decimalSeparator, importJsonText, args, result, importJsonUrl,
                   examples>>

\* the catch of loadExample without its finally
loadExampleFailedNoFinally(i, response, csv) ==
    /\ fetches' = Settle(i, response)
    /\ importError' = JStr("Failed to load example: " \o ErrorMessage(response, csv))
    /\ exampleLoading' = exampleLoading

\* lines 329-333: the catch and the finally of loadExample
loadExampleFailed(i, response, csv) ==
    /\ fetches' = Settle(i, response)
    /\ importError' = JStr("Failed to load example: " \o ErrorMessage(response, csv))
    /\ exampleLoading' = FALSE

\* loadExample from its first await to its second, lines 298-322
loadExampleCsvFetched(i, response) ==
    /\ i \in 1..Len(fetches)
    /\ fetches[i].fn = "loadExample"
    /\ fetches[i].await = "csv"
    /\ IF response.kind = "text"
       THEN LET detected == detectDelimiter(response.text)
                parsed == parseCSV(response.text, detected)
            IN  /\ inputCSV' = response.text
                /\ inputDelimiter' = detected
                /\ parsedCSV' = parsed
                /\ mappings' = [k \in 1..Len(parsed.headers) |->
                                    DefaultMapping(parsed.headers[k])]
                /\ fetches' = [fetches EXCEPT ![i].await = "mapping"]
                /\ UNCHANGED <<importError, exampleLoading>>
       ELSE /\ loadExampleFailed(i, response, TRUE)
            /\ UNCHANGED <<inputCSV, inputDelimiter, parsedCSV, mappings>>
    /\ UNCHANGED <<outputDelimiter, decimalSeparator, importJsonText, importSuccess,
                   args, result, importJsonUrl, examples>>

\* loadExample from its second await on, lines 322-333
loadExampleMappingFetched(i, response) ==
    /\ i \in 1..Len(fetches)
    /\ fetches[i].fn = "loadExample"
    /\ fetches[i].await = "mapping"
    /\ IF response.kind = "json"
       THEN /\ ApplyFetched(response.doc, "Failed to load example: ")
            /\ fetches' = Settle(i, response)
            /\ exampleLoading' = FALSE
       ELSE /\ loadExampleFailed(i, response, FALSE)
            /\ UNCHANGED <<mappings, inputDelimiter, outputDelimiter, decimalSeparator,
                           importSuccess>>
    /\ UNCHANGED <<inputCSV, parsedCSV, importJsonText, args, result, importJsonUrl,
                   examples>>

-----------------------------------------------------------------------------
(* unnamed/part_000: the Examples component.  It is handed the signals of the  *)
(* page that mounts it and keeps the index and the loading flag itself; the    *)
(* model holds them in examples and exampleLoading.  Its loadExample applies   *)
(* the fetched document itself, without validateAndApplyMapping.               *)

\* lines 45-52, up to the first await; the buttons are disabled while loading
ExamplesLoadExample(exampleId) ==
    /\ \E k \in 1..Len(examples) : examples[k] = exampleId
    /\ ~exampleLoading
    /\ Len(fetches) < MaxFetches
    /\ exampleLoading' = TRUE
    /\ importError' = JNull
    /\ importSuccess' = JNull
    /\ fetches' = Append(fetches, Suspended("Examples.loadExample", "csv"))
    /\ UNCHANGED <<inputCSV, parsedCSV, mappings, inputDelimiter, outputDelimiter,
                   decimalSeparator, importJsonText, args, result, importJsonUrl,
                   examples>>

\* lines 52-73, from the first await to the second
ExamplesCsvFetched(i, response) ==
    /\ i \in 1..Len(fetches)
    /\ fetches[i].fn = "Examples.loadExample"
    /\ fetches[i].await = "csv"
    /\ IF response.kind = "text"
       THEN LET detected == detectDelimiter(response.text)
                parsed == parseCSV(response.text, detected)
            IN  /\ inputCSV' = response.text
                /\ inputDelimiter' = detected
                /\ parsedCSV' = parsed
                /\ mappings' = [k \in 1..Len(parsed.headers) |->
                                    DefaultMapping(parsed.headers[k])]
                /\ fetches' = [fetches EXCEPT ![i].await = "mapping", ![i].parsed = parsed]
                /\ UNCHANGED <<importError, exampleLoading>>
       ELSE /\ loadExampleFailed(i, response, TRUE)
            /\ UNCHANGED <<inputCSV, inputDelimiter, parsedCSV, mappings>>
    /\ UNCHANGED <<outputDelimiter, decimalSeparator, importJsonText, importSuccess,
                   args, result, importJsonUrl, examples>>

\* lines 73-118, from the second await on, for a document that is an object;
\* `header in mappingsObj` raises when config.mappings is no object
ExamplesMappingFetched(i, response, name) ==
    /\ i \in 1..Len(fetches)
    /\ fetches[i].fn = "Examples.loadExample"
    /\ fetches[i].await = "mapping"
    /\ IF response.kind = "json"
       THEN LET config == response.doc
                parsed == fetches[i].parsed
                raises == /\ Len(parsed.headers) > 0
                          /\ Get(config, "mappings").t \notin {"obj", "arr"}
            IN  /\ inputDelimiter' = IF Falsy(Get(config, "inputDelimiter")) THEN inputDelimiter
                                     ELSE Get(config, "inputDelimiter").v
                /\ fetches' = Settle(i, response)
                /\ exampleLoading' = FALSE
                /\ IF raises
                   THEN /\ importError' = JStr("Failed to load example: "
                                               \o ErrorMessage(response, FALSE))
                        /\ UNCHANGED <<mappings, importSuccess>>
                   ELSE /\ mappings' = RebuildMappings(config, parsed.headers)
                        /\ importSuccess' = JStr("Loaded example: " \o name)
                        /\ UNCHANGED importError
       ELSE /\ loadExampleFailed(i, response, FALSE)
            /\ UNCHANGED <<mappings, inputDelimiter, importSuccess>>
    /\ UNCHANGED <<inputCSV, parsedCSV, outputDelimiter, decimalSeparator, importJsonText,
                   args, result, importJsonUrl, examples>>

-----------------------------------------------------------------------------
(* The inputs of a session *)

\* the tables typed into the input: two columns, and two columns of one name
TwoColumns == "a;b\n1;2"
SameName == "a;a\n1;2"

Obj1(k, v) == JObj(<< <<k, v>> >>)
Obj2(k1, v1, k2, v2) == JObj(<< <<k1, v1>>, <<k2, v2>> >>)

\* The sections of a mapping document: the value of a plain document for the
\* table TwoColumns (JUndefined: the key is absent) and the other values tried.
DocSections == <<
    [key |-> "version", base |-> JStr("1.0"),
     alts |-> {JUndefined, JStr("2.0")}],
    [key |-> "inputDelimiter", base |-> JUndefined,
     alts |-> {JStr(","), JStr("|")}],
    [key |-> "outputDelimiter", base |-> JUndefined,
     alts |-> {JStr("\t"), JStr("|")}],
    [key |-> "decimalSeparator", base |-> JUndefined,
     alts |-> {JStr("."), JStr(";")}],
    [key |-> "mappings", base |-> Obj1("a", JStr("A")),
     alts |-> {JUndefined, JArr(<<>>), JObj(<<>>),
               Obj2("a", JStr("A"), "b", JStr("b")),
               Obj1("b", JStr("B")),
               Obj1("a", JNum(5)),
               JObj(<< <<"z", JStr("Z")>>, <<"a", JStr("A")>>, <<"y", JStr("Y")>> >>)}],
    [key |-> "typeTransformations", base |-> JUndefined,
     alts |-> {JNull, JArr(<<>>),
               Obj1("a", JStr("integer")),
               Obj1("b", JStr("boolean")),
               Obj1("a", JStr("string")),
               Obj1("a", JStr("float"))}],
    [key |-> "transformations", base |-> JUndefined,
     alts |-> {JNull, JArr(<<>>),
               Obj1("a", JStr("uppercase")),
               Obj1("b", JStr("trim")),
               Obj1("a", JStr("dateFormat:dd.MM.yyyy")),
               Obj1("a", JStr("date:a:b:c")),
               Obj1("a", JStr("bogus")),
               Obj1("a", JNum(5))}],
    [key |-> "valueConversions", base |-> JUndefined,
     alts |-> {Obj1("a", Obj1("x", JStr("y"))),
               Obj1("b", Obj1("x", JStr("y")))}] >>

\* the entries of the documents that leave the plain document in at most
\* `budget` of the sections from the i-th on
RECURSIVE BuildDocs(_, _)
BuildDocs(i, budget) ==
    IF i > Len(DocSections) THEN {<<>>}
    ELSE LET s == DocSections[i]
             with(v, rest) == IF v = JUndefined THEN rest ELSE << <<s.key, v>> >> \o rest
         IN  {with(s.base, rest) : rest \in BuildDocs(i + 1, budget)}
             \cup (IF budget = 0 THEN {}
                   ELSE UNION {{with(v, rest) : rest \in BuildDocs(i + 1, budget - 1)}
                               : v \in s.alts})

\* the documents tried at import: objects, and values that are no object
Docs == {JObj(entries) : entries \in BuildDocs(1, MaxDeviations)}
        \cup {JNull, JNum(5), JArr(<<>>)}

ImportTexts == {JsonText(doc) : doc \in Docs} \cup {SyntaxErrorText}

\* a document that brings a transformation into the mapping list
SeedDocs == {
    JObj(<< <<"version", JStr("1.0")>>,
            <<"outputDelimiter", JStr(",")>>,
            <<"mappings", Obj1("a", JStr("A"))>>,
            <<"transformations", Obj1("a", JStr("uppercase"))>> >>)}

\* what the row of a column can send to updateMapping
MappingUpdates ==
    {[include |-> b] : b \in BOOLEAN}
    \cup {[targetColumn |-> "T"]}
    \cup {[sourceType |-> t] : t \in DataTypes \cup {""}}

\* what the inputs of a conversion can send to updateConversion
ConversionUpdates == {[sourceValue |-> "x"], [targetValue |-> JStr("y")]}

-----------------------------------------------------------------------------
(* Editing and export: a table is typed and parsed, a document may be imported *)
(* into the fresh list, the list is edited, and its export is pasted into the  *)
(* import box and imported.  The list is edited while the import box is empty. *)

\* the columns whose conversions are edited
ConversionColumns == {1}

EditMapping ==
    /\ importJsonText = NoText
    /\ \E index \in 1..2 : \E updates \in MappingUpdates : updateMapping(index, updates)

EditConversions ==
    /\ importJsonText = NoText
    /\ \E mappingIndex \in ConversionColumns :
          \/ addConversion(mappingIndex)
          \/ \E convIndex \in 1..MaxConversions :
                \/ \E updates \in ConversionUpdates :
                      updateConversion(mappingIndex, convIndex, updates)
                \/ removeConversion(mappingIndex, convIndex)

TypeTable == \E text \in {TwoColumns, SameName} : inputCSV = "" /\ TypeInput(text)

ParseTable == Len(parsedCSV.headers) = 0 /\ handleParseCSV

\* a document imported into the fresh list of the parsed table
TypeSeed ==
    /\ mappings = MergeMappings(parsedCSV.headers, <<>>)
    /\ importSuccess = JNull
    /\ \E doc \in SeedDocs : TypeImportText(JsonText(doc))

Next ==
    \/ TypeTable
    \/ ParseTable
    \/ EditMapping
    \/ EditConversions
    \/ TypeSeed
    \/ importFromText

Spec == Init /\ [][Next]_vars

-----------------------------------------------------------------------------
(* Round trip: the export of the edited list is pasted into the import box and *)
(* imported over the same table.                                               *)

\* the updates of a round-trip session
RoundTripUpdates ==
    {[include |-> b] : b \in BOOLEAN}
    \cup {[targetColumn |-> "T"]}
    \cup {[sourceType |-> t] : t \in {"string", "integer"}}

NextRoundTrip ==
    \/ TypeTable
    \/ ParseTable
    \/ /\ importJsonText = NoText
       /\ \E index \in 1..2 : \E updates \in RoundTripUpdates :
             updateMapping(index, updates)
    \/ EditConversions
    \/ PasteMappingJson
    \/ importFromText

SpecRoundTrip == Init /\ [][NextRoundTrip]_vars

-----------------------------------------------------------------------------
(* Import: one document of any kind is imported, over a table whose mapping    *)
(* list and output delimiter were edited, or without a table.  The session is   *)
(* prepared while the import box is empty and no message is shown.              *)

Preparing == importJsonText = NoText /\ importError = JNull /\ importSuccess = JNull

\* the edits of the list before the import: a column excluded, a type chosen
PreparedUpdates == {<<1, [include |-> FALSE]>>, <<2, [sourceType |-> "number"]>>}

NextImport ==
    \/ Preparing /\ TypeInput(TwoColumns)
    \/ Preparing /\ handleParseCSV
    \/ Preparing /\ SelectOutputDelimiter(",")
    \/ Preparing /\ \E edit \in PreparedUpdates : updateMapping(edit[1], edit[2])
    \/ Preparing /\ \E text \in ImportTexts : TypeImportText(text)
    \/ importFromText
    \/ ClearImportText

SpecImport == Init /\ [][NextImport]_vars

-----------------------------------------------------------------------------
(* Session: a table is typed and parsed or an example is loaded, the table is  *)
(* parsed again, it is cleared, and documents are imported from a URL, while    *)
(* fetches are in flight and settle in any order.                              *)

\* the examples of the index, and what the fetches of an example bring
ExampleIds == <<"orders">>
CommaTable == "a,c\n1,2"
ExampleTexts == {TwoColumns, CommaTable}

\* two documents the import applies, with different settings, and one it rejects
DocA ==
    JObj(<< <<"version", JStr("1.0")>>, <<"inputDelimiter", JStr(",")>>,
            <<"outputDelimiter", JStr(",")>>, <<"mappings", Obj1("a", JStr("A"))>> >>)
DocB ==
    JObj(<< <<"version", JStr("1.0")>>, <<"inputDelimiter", JStr("\t")>>,
            <<"outputDelimiter", JStr("\t")>>, <<"mappings", JObj(<<>>)>> >>)
DocOld == JObj(<< <<"version", JStr("2.0")>>, <<"mappings", JObj(<<>>)>> >>)

FetchedDocs == {DocA, DocB, DocOld}
\* what the fetches of a session bring: to importFromUrl a failure of either
\* kind or a document that is applied, to loadExample a failure of either
\* kind, a document that is applied or one that is rejected
UrlResponses == {NetworkError, NotOk, JsonText(DocA), JsonText(DocB)}
MappingResponses == {NotOk, SyntaxErrorText, JsonText(DocA), JsonText(DocOld)}
CsvResponses == {NetworkError, NotOk} \cup {CsvBody(text) : text \in ExampleTexts}
SessionCsvResponses == {NetworkError, NotOk, CsvBody(TwoColumns)}

\* the edits of a session: the first column renamed, the second excluded
SessionUpdates == {<<1, [targetColumn |-> "T"]>>, <<2, [include |-> FALSE]>>}

NextSession ==
    \/ inputCSV = "" /\ TypeInput(TwoColumns)
    \/ handleParseCSV
    \/ handleClear
    \/ LoadExamplesIndex(ExampleIds)
    \/ importJsonUrl = "" /\ TypeImportUrl("https://example.com/mapping.json")
    \/ importFromUrl
    \/ \E i \in 1..MaxFetches : \E response \in UrlResponses :
          importFromUrlResumed(i, response)
    \/ loadExample(ExampleIds[1])
    \/ \E i \in 1..MaxFetches : \E response \in SessionCsvResponses :
          loadExampleCsvFetched(i, response)
    \/ \E i \in 1..MaxFetches : \E response \in MappingResponses :
          loadExampleMappingFetched(i, response)

SpecSession == Init /\ [][NextSession]_vars

\* Every fetch settles: a call suspended at an await runs on in the end.  The
\* browser settles each fetch with a response or a rejection, and the
\* continuation of an await is a microtask that nothing on the page can hold up.
FetchesSettle ==
    /\ WF_vars(\E i \in 1..MaxFetches : \E response \in UrlResponses :
                  importFromUrlResumed(i, response))
    /\ WF_vars(\E i \in 1..MaxFetches : \E response \in SessionCsvResponses :
                  loadExampleCsvFetched(i, response))
    /\ WF_vars(\E i \in 1..MaxFetches : \E response \in MappingResponses :
                  loadExampleMappingFetched(i, response))

SpecSessionFair == Init /\ [][NextSession]_vars /\ FetchesSettle

-----------------------------------------------------------------------------
(* Examples: the page mounts the Examples component.  A table is typed and     *)
(* parsed or an example is loaded, and the handlers of the page run while the  *)
(* load is suspended at a fetch.                                               *)

\* a document without mappings
DocBare == JObj(<< <<"version", JStr("1.0")>>, <<"inputDelimiter", JStr(",")>> >>)

ExampleResponses ==
    {NetworkError, NotOk, SyntaxErrorText}
        \cup {JsonText(doc) : doc \in {DocA, DocB, DocBare}}

NextExamples ==
    \/ TypeTable
    \/ handleParseCSV
    \/ handleInputDelimiterChange(",")
    \/ handleClear
    \/ \E edit \in SessionUpdates : updateMapping(edit[1], edit[2])
    \/ LoadExamplesIndex(ExampleIds)
    \/ ExamplesLoadExample(ExampleIds[1])
    \/ \E i \in 1..MaxFetches : \E response \in CsvResponses :
          ExamplesCsvFetched(i, response)
    \/ \E i \in 1..MaxFetches : \E response \in ExampleResponses :
          ExamplesMappingFetched(i, response, "Orders")

SpecExamples == Init /\ [][NextExamples]_vars

-----------------------------------------------------------------------------
(* Cells: a table of one row is parsed, a document may bring a transformation *)
(* and conversions to its first column, and the type of that column and the    *)
(* decimal separator are chosen.  The second column ends every line with ".".  *)

CellValues ==
    {"Yes", "true", "TRUE", "false", "n", "Maybe", "abc", "1,5", "-2,5", "1.234,56",
     "2024-03-05", "05/03/2024"}

\* QuotedHeader is a table whose first header holds the delimiter
QuotedHeader == "\"a;b\";d\n1;."

CellTexts ==
    {"c;d\n" \o value \o ";." : value \in CellValues}
        \cup {"c;d\n\"a;b\";.", QuotedHeader}

CellTransformations ==
    {JUndefined, JStr("uppercase"), JStr("date"), JStr("date:yyyy-MM-dd:dd.MM.yyyy")}

CellConversions ==
    {JUndefined,
     Obj1("c", Obj2("yes", JStr("Ja"), "YES", JStr("Nee"))),
     Obj1("c", Obj1("TRUE", JStr("false"))),
     Obj1("c", Obj1("1,5", JStr("true"))),
     Obj1("c", Obj1("abc", JNum(5)))}

CellDocs ==
    {JsonRoundTrip(JObj(<< <<"version", JStr("1.0")>>,
                          <<"mappings", Obj2("c", JStr("C"), "d", JStr("D"))>>,
                          <<"transformations",
                            IF trans = JUndefined THEN JUndefined ELSE Obj1("c", trans)>>,
                          <<"valueConversions", convs>> >>))
     : trans \in CellTransformations, convs \in CellConversions}

NextCell ==
    \/ \E text \in CellTexts : inputCSV = "" /\ TypeInput(text)
    \/ ParseTable
    \/ /\ importJsonText = NoText
       /\ \E t \in DataTypes \cup {""} : updateMapping(1, [sourceType |-> t])
    \/ /\ importJsonText = NoText
       /\ \E separator \in DecimalSeparators : SelectDecimalSeparator(separator)
    \/ /\ Len(parsedCSV.headers) > 0
       /\ importSuccess = JNull
       /\ \E doc \in CellDocs : TypeImportText(JsonText(doc))
    \/ importFromText

SpecCell == Init /\ [][NextCell]_vars

-----------------------------------------------------------------------------
(* Calls: one of the exported utility functions is called on its own with     *)
(* arguments drawn from a bounded set, and what it returns is kept.  The page  *)
(* stays as constructed.                                                       *)

\* the strings of at most n characters of the alphabet
RECURSIVE StringsOver(_, _)
StringsOver(alphabet, n) ==
    IF n = 0 THEN {""}
    ELSE LET shorter == StringsOver(alphabet, n - 1)
         IN  shorter \cup {s \o c : s \in shorter, c \in alphabet}

\* n copies of s
RECURSIVE Repeat(_, _)
Repeat(s, n) == IF n = 0 THEN "" ELSE s \o Repeat(s, n - 1)

Returned(value) == [called |-> TRUE, value |-> value]

\* texts of more lines than detectDelimiter samples, and two whole tables
ManyLines ==
    {Repeat("a\n", SampleLines) \o Repeat(";", 2 * SampleLines),
     Repeat("a;b\n", SampleLines) \o Repeat(",", 3 * SampleLines),
     Repeat("a\tb\n", SampleLines) \o "c;;;d",
     "\ta\n1\t2", "a;b\n1;2\n"}

DetectTexts == StringsOver({"a", ",", ";", "\t", "\"", "\n"}, MaxTextLen) \cup ManyLines

DetectCalls == {[fn |-> "detectDelimiter", text |-> text, round |-> 1] : text \in DetectTexts}

CallDetectDelimiter ==
    /\ args.fn = "detectDelimiter"
    /\ result = NotCalled
    /\ result' = Returned(detectDelimiter(args.text))
    /\ UNCHANGED <<inputCSV, parsedCSV, mappings, inputDelimiter, outputDelimiter,
                   decimalSeparator, importJsonText, importError, importSuccess, args,
                   importJsonUrl, examples, exampleLoading, fetches>>

\* one byte or two of every class the functions tell apart: ASCII, 0x80-0x9F,
\* 0xA0-0xBF, the leads that begin nothing, the leads of two, three and four
\* bytes, and the bytes of the byte-order marks
ByteSamples == {65, 159, 160, 187, 191, 193, 194, 224, 239, 240, 254, 255}

RECURSIVE BuffersOver(_, _)
BuffersOver(bytes, n) ==
    IF n = 0 THEN {<<>>}
    ELSE LET shorter == BuffersOver(bytes, n - 1)
         IN  shorter \cup {Append(b, x) : b \in shorter, x \in bytes}

\* buffers of four bytes and more: a lead of four bytes needs them
LongBuffers ==
    {<<240, 159, 152, 128>>, <<240, 65, 65, 65>>, <<244, 128, 128, 128>>,
     <<65, 240, 144, 128, 128>>, <<239, 187, 191, 240, 65>>, <<65, 66, 67, 68>>,
     <<240, 159, 152>>, <<65, 233, 65, 66, 67>>, <<65, 128, 240, 65, 65, 65>>}

Buffers == BuffersOver(ByteSamples, MaxBytes) \cup LongBuffers

DecodeCalls == {[fn |-> "detectAndDecodeText", bytes |-> bytes, round |-> 1] : bytes \in Buffers}

\* reader.onload of handleFileUpload, lines 390-392: the buffer of the file
CallDetectAndDecodeText ==
    /\ args.fn = "detectAndDecodeText"
    /\ result = NotCalled
    /\ result' = Returned(detectAndDecodeText(args.bytes))
    /\ UNCHANGED <<inputCSV, parsedCSV, mappings, inputDelimiter, outputDelimiter,
                   decimalSeparator, importJsonText, importError, importSuccess, args,
                   importJsonUrl, examples, exampleLoading, fetches>>

\* dates in each of the five formats, texts two formats read, and texts none reads
DateValues ==
    {"", "01-02-2024", "2024-02-01", "01/02/2024", "01.02.2024", "2024/02/01",
     "01-02-03", "01/02/03", "31-12-2023", "29-02-2024", "29-02-2023", "2024-13-40",
     "12/31/2024", "1-2-2024", "2024-02-01x", "abc", " "}

DateCalls == {[fn |-> "parseDateAutoDetect", value |-> value, round |-> 1] : value \in DateValues}

CallParseDateAutoDetect ==
    /\ args.fn = "parseDateAutoDetect"
    /\ result = NotCalled
    /\ result' = Returned(parseDateAutoDetect(args.value))
    /\ UNCHANGED <<inputCSV, parsedCSV, mappings, inputDelimiter, outputDelimiter,
                   decimalSeparator, importJsonText, importError, importSuccess, args,
                   importJsonUrl, examples, exampleLoading, fetches>>

\* cells: words of the boolean type, numbers of both conventions, other text
ValueSamples ==
    {"", " ", "a", "b", "abc", "Yes", "TRUE", "n", "0", "maybe", "12", "12,5", "12.5",
     "1.234,56", "1,234.56", "-3,50", " 7 ", "x1", "1,2,3", "0,10", "1.000"}

\* conversion lists: none, one, and two of which the first leads to the second
ConversionLists ==
    {<<>>,
     <<Conversion("a", JStr("b"))>>,
     <<Conversion("a", JStr("b")), Conversion("b", JStr("c"))>>,
     <<Conversion("yes", JStr("Ja")), Conversion("12", JStr("twelve"))>>}

TransformCalls ==
    {[fn |-> "transformValue", value |-> value, sourceType |-> sourceType,
      conversions |-> conversions, decimalSeparator |-> separator, round |-> 1]
     : value \in ValueSamples, sourceType \in DataTypes,
       conversions \in ConversionLists, separator \in DecimalSeparators}

CallTransformValue ==
    /\ args.fn = "transformValue"
    /\ result = NotCalled
    /\ result' = Returned(transformValue(args.value, args.sourceType, args.conversions,
                                         args.decimalSeparator))
    /\ UNCHANGED <<inputCSV, parsedCSV, mappings, inputDelimiter, outputDelimiter,
                   decimalSeparator, importJsonText, importError, importSuccess, args,
                   importJsonUrl, examples, exampleLoading, fetches>>

\* transformValue called on what it returned, for the sourceType "string"
CallTransformValueAgain ==
    /\ args.fn = "transformValue"
    /\ args.sourceType = "string"
    /\ args.round = 1
    /\ result # NotCalled
    /\ args' = [args EXCEPT !.value = result.value.v, !.round = 2]
    /\ result' = Returned(transformValue(result.value.v, args.sourceType,
                                         args.conversions, args.decimalSeparator))
    /\ UNCHANGED <<inputCSV, parsedCSV, mappings, inputDelimiter, outputDelimiter,
                   decimalSeparator, importJsonText, importError, importSuccess,
                   importJsonUrl, examples, exampleLoading, fetches>>

\* texts with white space and letters of both cases, dates in the five formats
\* and in none
TextSamples ==
    {"", "  ", " a ", "  b c\t", "abc", "AbC", "2024-03-05", "05/03/2024", "05-03-2024",
     "05.03.2024", "2024/03/05", "2024-13-40", "03/25/2024", "5 March 2024"}

\* every form of the transformation, absent and empty, and names that are none
TransformationSamples ==
    {JUndefined, JStr(""), JStr("uppercase"), JStr("lowercase"), JStr("trim"),
     JStr("date"), JStr("dateFormat:dd.MM.yyyy"), JStr("dateFormat:"),
     JStr("date:dd/MM/yyyy"), JStr("date:"), JStr("date:dd/MM/yyyy:yyyy-MM-dd"),
     JStr("date::dd.MM.yyyy"), JStr("date:dd.MM.yyyy:"), JStr("date::"),
     JStr("date:dd/MM/yyyy:dd.MM.yyyy:HH"), JStr("reverse"), JStr("Uppercase"),
     JStr("dates"), JStr("dateformat:dd.MM.yyyy")}

ApplyCalls ==
    {[fn |-> "applyTransformation", value |-> value, transformation |-> transformation,
      round |-> 1]
     : value \in TextSamples, transformation \in TransformationSamples}

CallApplyTransformation ==
    /\ args.fn = "applyTransformation"
    /\ result = NotCalled
    /\ result' = Returned(applyTransformation(JStr(args.value), args.transformation))
    /\ UNCHANGED <<inputCSV, parsedCSV, mappings, inputDelimiter, outputDelimiter,
                   decimalSeparator, importJsonText, importError, importSuccess, args,
                   importJsonUrl, examples, exampleLoading, fetches>>

\* the trim transformation applied to what it returned
CallApplyTransformationAgain ==
    /\ args.fn = "applyTransformation"
    /\ args.transformation = JStr("trim")
    /\ args.round = 1
    /\ result # NotCalled
    /\ args' = [args EXCEPT !.value = result.value.v, !.round = 2]
    /\ result' = Returned(applyTransformation(result.value, args.transformation))
    /\ UNCHANGED <<inputCSV, parsedCSV, mappings, inputDelimiter, outputDelimiter,
                   decimalSeparator, importJsonText, importError, importSuccess,
                   importJsonUrl, examples, exampleLoading, fetches>>

\* fields: empty, plain, with the delimiter, with a quote, with white space at
\* the edge
FieldSamples == {"", "a", "b;c", "d\"e", " a"}

\* header lists of one and of two columns
HeaderLists == {<<h>> : h \in FieldSamples} \cup (FieldSamples \X FieldSamples)

\* the row matrices of at most n rows, each row as long as the headers
RECURSIVE RowMatrices(_, _)
RowMatrices(headers, n) ==
    IF n = 0 THEN {<<>>}
    ELSE LET fewer == RowMatrices(headers, n - 1)
         IN  fewer \cup {Append(rows, row) :
                            rows \in fewer,
                            row \in [1..Len(headers) -> FieldSamples]}

StringifyCalls ==
    UNION {{[fn |-> "stringifyCSV", headers |-> headers, rows |-> rows, round |-> 1]
            : rows \in RowMatrices(headers, MaxRows)} : headers \in HeaderLists}

CallStringifyCSV ==
    /\ args.fn = "stringifyCSV"
    /\ result = NotCalled
    /\ result' = Returned(stringifyCSV(args.headers, args.rows, ";"))
    /\ UNCHANGED <<inputCSV, parsedCSV, mappings, inputDelimiter, outputDelimiter,
                   decimalSeparator, importJsonText, importError, importSuccess, args,
                   importJsonUrl, examples, exampleLoading, fetches>>

\* parseCSV called on the text stringifyCSV returned
CallParseCSV ==
    /\ args.fn = "stringifyCSV"
    /\ args.round = 1
    /\ result # NotCalled
    /\ args' = [args EXCEPT !.round = 2]
    /\ result' = Returned(parseCSV(result.value, ";"))
    /\ UNCHANGED <<inputCSV, parsedCSV, mappings, inputDelimiter, outputDelimiter,
                   decimalSeparator, importJsonText, importError, importSuccess,
                   importJsonUrl, examples, exampleLoading, fetches>>

Calls ==
    DetectCalls \cup DecodeCalls \cup DateCalls \cup TransformCalls \cup ApplyCalls
        \cup StringifyCalls

InitCalls ==
    /\ Constructed
    /\ args \in Calls
    /\ result = NotCalled

NextCalls ==
    \/ CallDetectDelimiter
    \/ CallDetectAndDecodeText
    \/ CallParseDateAutoDetect
    \/ CallTransformValue
    \/ CallTransformValueAgain
    \/ CallApplyTransformation
    \/ CallApplyTransformationAgain
    \/ CallStringifyCSV
    \/ CallParseCSV

SpecCalls == InitCalls /\ [][NextCalls]_vars


-----------------------------------------------------------------------------
(* Export and round trip *)

Included == SelectSeq(mappings, LAMBDA m : m.include)

\* the exported section of that name, an empty object when the key is absent
Section(name) ==
    IF HasKey(getMappingConfig, name) THEN Get(getMappingConfig, name) ELSE JObj(<<>>)

\* the import box holds the export of the current list
HoldsExport == importJsonText = JsonText(serializeMappingConfig(getMappingConfig))

\* a mapping up to what the round trip may change: conversions with an empty
\* sourceValue dropped, an unset sourceType read as "string"
Normalized(m) ==
    [m EXCEPT !.sourceType = IF @ = "" THEN "string" ELSE @,
              !.conversions = SelectSeq(@, LAMBDA conv : conv.sourceValue # "")]

\* C1: importing the export of the mapping list of a loaded table over the same
\* table succeeds and rebuilds an equal list, up to conversions with an empty
\* sourceValue and to unset read as "string".
C1_RoundTrip ==
    [][(importFromText /\ HoldsExport /\ Len(parsedCSV.headers) > 0)
       => /\ importSuccess' # JNull
          /\ Len(mappings') = Len(mappings)
          /\ \A i \in 1..Len(mappings) :
                Normalized(mappings'[i]) = Normalized(mappings[i])]_vars

\* C4: every entry of the exported typeTransformations belongs to an included
\* column whose sourceType is set and not "string", and its value is one of
\* integer, number, boolean.
C4_TypesExported ==
    \A i \in 1..Len(Section("typeTransformations").v) :
        LET entry == Section("typeTransformations").v[i]
        IN  /\ entry[2] \in {JStr("integer"), JStr("number"), JStr("boolean")}
            /\ \E k \in 1..Len(Included) :
                  /\ Included[k].sourceColumn = entry[1]
                  /\ Included[k].sourceType \notin {"", "string"}

\* C5: the export has a valueConversions entry for the name of an included
\* column exactly when a conversion of such a column has a non-empty
\* sourceValue, and the entry maps each such sourceValue to its targetValue.
C5_ConversionsExported ==
    \A k \in 1..Len(Included) :
        LET kept == SelectSeq(Included[k].conversions, LAMBDA conv : conv.sourceValue # "")
            entry == Get(Section("valueConversions"), Included[k].sourceColumn)
        IN  Len(kept) > 0
            => /\ entry.t = "obj"
               /\ \A c \in 1..Len(kept) :
                     Get(entry, kept[c].sourceValue) = kept[c].targetValue

\* C6 as first stated, column by column: the keys of the exported mappings are
\* the sourceColumns of the included columns, each mapped to its targetColumn;
\* an excluded column is in none of the three sections; an included column is
\* in transformations exactly when its transformation is not empty.
C6_PerColumn ==
    /\ Range(Keys(Section("mappings"))) = {Included[k].sourceColumn : k \in 1..Len(Included)}
    /\ \A i \in 1..Len(mappings) :
          IF mappings[i].include
          THEN /\ Get(Section("mappings"), mappings[i].sourceColumn)
                    = JStr(mappings[i].targetColumn)
               /\ HasKey(Section("transformations"), mappings[i].sourceColumn)
                    <=> ~Falsy(mappings[i].transformation)
          ELSE \A name \in {"mappings", "typeTransformations", "transformations"} :
                  ~HasKey(Section(name), mappings[i].sourceColumn)

\* the included columns of a name, in list order
IncludedAs(name) == SelectSeq(Included, LAMBDA m : m.sourceColumn = name)

\* C6: the keys of the exported mappings are the names of the included columns,
\* each mapped to the targetColumn of the last included column of that name; a
\* name no included column bears is in none of the three sections; a name is in
\* transformations exactly when an included column of that name has a
\* transformation that is not empty.
C6_ByName ==
    /\ Range(Keys(Section("mappings"))) = {Included[k].sourceColumn : k \in 1..Len(Included)}
    /\ \A i \in 1..Len(mappings) :
          LET name == mappings[i].sourceColumn
              bearers == IncludedAs(name)
          IN  IF Len(bearers) > 0
              THEN /\ Get(Section("mappings"), name)
                        = JStr(bearers[Len(bearers)].targetColumn)
                   /\ HasKey(Section("transformations"), name)
                        <=> \E k \in 1..Len(bearers) : ~Falsy(bearers[k].transformation)
              ELSE \A section \in {"mappings", "typeTransformations", "transformations"} :
                      ~HasKey(Section(section), name)

\* an excluded column shares its name with an included one that is renamed and
\* carries a transformation
C6_Witness ==
    /\ Len(mappings) = 2
    /\ mappings[1].sourceColumn = mappings[2].sourceColumn
    /\ ~mappings[1].include
    /\ mappings[2].include
    /\ mappings[2].targetColumn = "T"
    /\ ~Falsy(mappings[2].transformation)
    /\ HasKey(Section("transformations"), mappings[2].sourceColumn)

-----------------------------------------------------------------------------
(* Import *)

\* the document in the import box, when the box holds JSON
HoldsDocument == importJsonText # NoText /\ importJsonText.kind = "json"

\* the keys of the document's mappings that are no header of the loaded table
MissingKeys ==
    SelectSeq(Keys(Get(importJsonText.doc, "mappings")),
              LAMBDA key : key \notin Range(parsedCSV.headers))

\* unknown columns are all that is wrong with the document: it is accepted by
\* a table that has them
OnlyUnknownColumns ==
    /\ HoldsDocument
    /\ Len(parsedCSV.headers) > 0
    /\ Len(MissingKeys) > 0
    /\ validateAndApplyMapping(importJsonText.doc, parsedCSV.headers \o MissingKeys,
                               Signals).ok

\* the names a message lists after its colon, separated by commas
NamesListed(message) ==
    {Trim(part) : part \in Range(Split(Slice(message, IndexOf(message, ":")), ","))}

\* C2: an import attempt that ends with an error leaves the mapping list, the
\* parsed table, both delimiters and the decimal separator as they were; when
\* unknown columns are all that is wrong, the attempt ends with an error whose
\* message lists every key of mappings that is no header of the table.
C2_AtomicRejection ==
    [][importFromText
       => /\ importError' # JNull
             => UNCHANGED <<mappings, parsedCSV, inputDelimiter, outputDelimiter,
                            decimalSeparator>>
          /\ OnlyUnknownColumns
             => /\ importError' # JNull
                /\ Range(MissingKeys) \subseteq NamesListed(importError'.v)]_vars

\* a document that names two unknown columns and another output delimiter was
\* rejected over an edited list
C2_Witness ==
    /\ importError = JStr("Mapping references columns not in source CSV: z, y")
    /\ HoldsDocument
    /\ Get(importJsonText.doc, "outputDelimiter") = JStr("\t")
    /\ outputDelimiter = ","
    /\ Len(mappings) = 2
    /\ ~mappings[1].include
    /\ mappings[2].sourceType = "number"

\* the first check of the list the document violates, 0 when it passes all
FirstViolated ==
    LET doc == importJsonText.doc
        targets == Get(doc, "mappings")
        types == Get(doc, "typeTransformations")
        transformations == Get(doc, "transformations")
        unsupported(key, list) ==
            Get(doc, key).t # "undefined" /\ ~IncludesValue(list, Get(doc, key))
    IN  IF Falsy(doc) \/ ~TypeofObject(doc) THEN 1
        ELSE IF Get(doc, "version") # JStr("1.0") THEN 2
        ELSE IF targets.t # "obj" THEN 3
        ELSE IF \E i \in 1..Len(targets.v) : targets.v[i][2].t # "str" THEN 4
        ELSE IF /\ types.t # "undefined"
                /\ \/ types.t # "obj"
                   \/ \E i \in 1..Len(types.v) : BadTypeTransformation(types.v[i][2])
        THEN 5
        ELSE IF /\ transformations.t # "undefined"
                /\ \/ transformations.t # "obj"
                   \/ \E i \in 1..Len(transformations.v) :
                          BadTransformation(transformations.v[i][2])
        THEN 6
        ELSE IF \/ unsupported("inputDelimiter", validDelimiters)
                \/ unsupported("outputDelimiter", validDelimiters)
                \/ unsupported("decimalSeparator", validDecimalSeparators)
        THEN 7
        ELSE IF Len(parsedCSV.headers) = 0 THEN 8
        ELSE IF Len(MissingKeys) > 0 THEN 9
        ELSE 0

\* the check an error message belongs to, 0 for a message of none of them
CheckOfMessage(message) ==
    CASE StartsWith(message, "Invalid JSON: expected an object") -> 1
      [] StartsWith(message, "Unsupported version") -> 2
      [] StartsWith(message, "Invalid mapping: 'mappings'") -> 3
      [] StartsWith(message, "Mapping '") -> 4
      [] StartsWith(message, "Invalid 'typeTransformations'") -> 5
      [] StartsWith(message, "Type transformation '") -> 5
      [] StartsWith(message, "Invalid 'transformations'") -> 6
      [] StartsWith(message, "Transformation '") -> 6
      [] StartsWith(message, "Invalid 'inputDelimiter'") -> 7
      [] StartsWith(message, "Invalid 'outputDelimiter'") -> 7
      [] StartsWith(message, "Invalid 'decimalSeparator'") -> 7
      [] StartsWith(message, "No CSV loaded") -> 8
      [] StartsWith(message, "Mapping references columns not in source CSV") -> 9
      [] OTHER -> 0

\* C3: the import of a document that violates a check reports one error, the
\* error of the first check it violates in the order of the list.
C3_FirstFailingCheck ==
    [][(importFromText /\ HoldsDocument /\ FirstViolated > 0)
       => /\ importError' # JNull
          /\ CheckOfMessage(importError'.v) = FirstViolated]_vars

\* C7: after a successful import the list has one entry per header, in header
\* order; a header that is a key of the document's mappings is included under
\* the document's target name, and any other header is an excluded identity
\* entry: target equal to source, no type, no transformation, no conversions.
C7_Rebuild ==
    [][(importFromText /\ HoldsDocument /\ ImportOutcome.ok)
       => /\ Len(mappings') = Len(parsedCSV.headers)
          /\ \A i \in 1..Len(parsedCSV.headers) :
                LET header == parsedCSV.headers[i]
                    targets == Get(importJsonText.doc, "mappings")
                IN  /\ mappings'[i].sourceColumn = header
                    /\ IF HasKey(targets, header)
                       THEN /\ mappings'[i].include
                            /\ mappings'[i].targetColumn = Get(targets, header).v
                       ELSE mappings'[i] = ColumnMapping(header, "", header, <<>>,
                                                         JUndefined, FALSE)]_vars

\* the grammar of a transformation: a keyword, dateFormat:FORMAT, or date: with
\* one or two parts after the prefix
InGrammar(trans) ==
    /\ trans.t = "str"
    /\ \/ trans.v \in {"uppercase", "lowercase", "trim", "date"}
       \/ StartsWith(trans.v, "dateFormat:")
       \/ /\ StartsWith(trans.v, "date:")
          /\ Len(Split(Slice(trans.v, 5), ":")) \in {1, 2}

\* C8: the import of a document one of whose transformations is outside the
\* grammar is rejected.
C8_Grammar ==
    [][(/\ importFromText
        /\ HoldsDocument
        /\ Get(importJsonText.doc, "transformations").t = "obj"
        /\ \E i \in 1..Len(Get(importJsonText.doc, "transformations").v) :
              ~InGrammar(Get(importJsonText.doc, "transformations").v[i][2]))
       => /\ importError' # JNull
          /\ importSuccess' = JNull
          /\ UNCHANGED mappings]_vars

-----------------------------------------------------------------------------
(* Cells *)

\* a table of one row is loaded and its output is a text
OneRow == Len(parsedCSV.headers) > 0 /\ Len(parsedCSV.rows) = 1 /\ outputCSV.t = "str"

FirstCell == parsedCSV.rows[1][1]

Coerced ==
    convertValue(FirstCell, mappings[1].sourceType, mappings[1].conversions,
                   decimalSeparator)

Transformed == applyTransformation(Coerced, mappings[1].transformation)

\* what the output holds for the first cell: the second line without the
\* delimiter and the "." that end it
Written ==
    LET line == Split(outputCSV.v, "\n")[2]
    IN  SubSeq(line, 1, Len(line) - 2)

\* the text is written as it is: it holds no delimiter and no quote
Plain(text) == ~Includes(text, outputDelimiter) /\ ~Includes(text, "\"")

\* C9: when a conversion's sourceValue equals the cell case-insensitively,
\* convertValue returns the targetValue of the first such conversion, whatever
\* the sourceType and the decimal separator.
C9_ConversionFirst ==
    \A r \in 1..Len(parsedCSV.rows) : \A i \in 1..Len(mappings) :
        LET value == parsedCSV.rows[r][i]
            conversions == mappings[i].conversions
            matching == {k \in 1..Len(conversions) :
                            ToLowerCase(conversions[k].sourceValue) = ToLowerCase(value)}
            first == CHOOSE k \in matching : \A j \in matching : k <= j
        IN  matching # {}
            => convertValue(value, mappings[i].sourceType, conversions, decimalSeparator)
                 = conversions[first].targetValue

\* two conversions match a cell of a boolean column that the type would coerce
C9_Witness ==
    /\ OneRow
    /\ FirstCell = "Yes"
    /\ mappings[1].sourceType = "boolean"
    /\ Len(mappings[1].conversions) = 2
    /\ ToLowerCase(mappings[1].conversions[1].sourceValue) = "yes"
    /\ ToLowerCase(mappings[1].conversions[2].sourceValue) = "yes"
    /\ mappings[1].conversions[1].targetValue # mappings[1].conversions[2].targetValue
    /\ Written = "Ja"

\* C10 as first stated: a cell whose coerced value is "true" is written as "1",
\* one whose coerced value is "false" as "0", and any other cell as its
\* transformed text.
C10_CoercedRule ==
    OneRow
    => IF Coerced = JStr("true") THEN Written = "1"
       ELSE IF Coerced = JStr("false") THEN Written = "0"
       ELSE Plain(Transformed.v) => Written = Transformed.v

\* C10: in a column of sourceType boolean a cell whose transformed value, the
\* coerced value after the transformation of the column, is "true" is written
\* as "1" and one whose transformed value is "false" as "0"; any other cell, and
\* every cell of a column of another type, is written as its transformed text.
\* A cell "Yes" of a boolean column without conversions and transformation is
\* written as "1".
C10_BooleanColumnRule ==
    OneRow
    => /\ IF mappings[1].sourceType = "boolean" /\ Transformed = JStr("true")
          THEN Written = "1"
          ELSE IF mappings[1].sourceType = "boolean" /\ Transformed = JStr("false")
          THEN Written = "0"
          ELSE Plain(Transformed.v) => Written = Transformed.v
       /\ (/\ FirstCell = "Yes"
           /\ mappings[1].sourceType = "boolean"
           /\ mappings[1].conversions = <<>>
           /\ Falsy(mappings[1].transformation))
          => Written = "1"

\* the cell "Yes" of a boolean column is coerced to "true" and written as "1"
C10_Witness ==
    /\ OneRow
    /\ FirstCell = "Yes"
    /\ mappings[1].sourceType = "boolean"
    /\ Coerced = JStr("true")
    /\ Written = "1"
    /\ outputCSV = JStr("C;D\n1;.")

-----------------------------------------------------------------------------
(* Output quoting *)

\* a field as the quoting rule writes it under the output delimiter
QuotedField(text) ==
    IF Includes(text, outputDelimiter) \/ Includes(text, "\"")
    THEN "\"" \o DoubleQuotes(text) \o "\"" ELSE text

\* the value of row r the included column i writes, before any quoting
FieldValue(r, i) ==
    LET m == Included[i]
        colIndex == SeqIndexOf(parsedCSV.headers, m.sourceColumn)
        row == parsedCSV.rows[r]
        cell == IF colIndex <= Len(row) THEN row[colIndex] ELSE ""
    IN  OutputValue(m.sourceType,
                    applyTransformation(convertValue(cell, m.sourceType, m.conversions,
                                                     decimalSeparator),
                                        m.transformation)).v

\* C11: in the output text every field, header names as well as data cells,
\* that holds the output delimiter or a double quote is wrapped in double
\* quotes with its quotes doubled, and every other field is written bare.
C11_Quoting ==
    (Len(parsedCSV.headers) > 0 /\ Len(Included) > 0 /\ outputCSV.t = "str")
        => outputCSV.v =
               Join(<<Join([i \in 1..Len(Included) |->
                               QuotedField(Included[i].targetColumn)], outputDelimiter)>>
                    \o [r \in 1..Len(parsedCSV.rows) |->
                           Join([i \in 1..Len(Included) |-> QuotedField(FieldValue(r, i))],
                                outputDelimiter)],
                    "\n")

-----------------------------------------------------------------------------
(* Delimiter detection *)

\* the lines of a text: a line feed that ends the text ends its last line
LinesOf(text) ==
    IF text = "" THEN <<>>
    ELSE IF Char(text, Len(text)) = "\n" THEN Split(SubSeq(text, 1, Len(text) - 1), "\n")
    ELSE Split(text, "\n")

\* the rule of the averages over the first lines of the text: an average is at
\* least 1 when the count is at least the number of lines
AverageRule(text) ==
    LET all == LinesOf(text)
        lines == SubSeq(all, 1, IF Len(all) < 10 THEN Len(all) ELSE 10)
        comma == SumCounts(lines, ",")
        semi == SumCounts(lines, ";")
        tab == SumCounts(lines, "\t")
    IN  IF Len(lines) > 0 /\ tab >= Len(lines) /\ tab >= comma /\ tab >= semi THEN "\t"
        ELSE IF Len(lines) > 0 /\ semi >= Len(lines) /\ semi >= comma THEN ";"
        ELSE ","

\* C12: for every text detectDelimiter returns comma, semicolon or tab by the
\* per-line averages of the occurrences outside quoted spans over at most the
\* first 10 lines: tab if its average is at least 1 and at least both others,
\* otherwise semicolon if its average is at least 1 and at least comma's,
\* otherwise comma, also for the empty text.
C12_AverageRule ==
    (args.fn = "detectDelimiter" /\ result # NotCalled)
        => /\ result.value \in Delimiters
           /\ result.value = AverageRule(args.text)

-----------------------------------------------------------------------------
(* Encoding classification *)

IsContinuation(byte) == byte >= 128 /\ byte <= 191

\* how many continuation bytes a lead byte calls for, -1 for a byte that leads
\* nothing
Continuations(lead) ==
    IF lead <= 127 THEN 0
    ELSE IF lead >= 194 /\ lead <= 223 THEN 1
    ELSE IF lead >= 224 /\ lead <= 239 THEN 2
    ELSE IF lead >= 240 /\ lead <= 244 THEN 3
    ELSE -1

\* every byte sequence from i on is well formed: the lead is followed by the
\* right number of continuation bytes, the second byte after 0xE0 is >= 0xA0
RECURSIVE WellFormedFrom(_, _)
WellFormedFrom(bytes, i) ==
    IF i > Len(bytes) THEN TRUE
    ELSE LET n == Continuations(bytes[i])
         IN  /\ n >= 0
             /\ i + n <= Len(bytes)
             /\ \A k \in 1..n : IsContinuation(bytes[i + k])
             /\ bytes[i] = 224 => bytes[i + 1] >= 160
             /\ WellFormedFrom(bytes, i + n + 1)

\* the decoder the fixed priority picks
PriorityDecoder(bytes) ==
    IF Len(bytes) >= 3 /\ SubSeq(bytes, 1, 3) = <<239, 187, 191>> THEN "utf-8"
    ELSE IF Len(bytes) >= 2 /\ SubSeq(bytes, 1, 2) = <<255, 254>> THEN "utf-16le"
    ELSE IF Len(bytes) >= 2 /\ SubSeq(bytes, 1, 2) = <<254, 255>> THEN "utf-16be"
    ELSE IF WellFormedFrom(bytes, 1) THEN "utf-8"
    ELSE IF \E j \in 1..Len(bytes) : bytes[j] >= 128 /\ bytes[j] <= 159 THEN "windows-1252"
    ELSE "iso-8859-1"

\* C13: for every buffer detectAndDecodeText picks the encoding by the fixed
\* priority: a byte-order mark of UTF-8, UTF-16LE or UTF-16BE if there is one;
\* otherwise UTF-8 if and only if every byte sequence is well formed; otherwise
\* Windows-1252 if some byte lies in 0x80-0x9F, else ISO-8859-1.
C13_Priority ==
    (args.fn = "detectAndDecodeText" /\ result # NotCalled)
        => result.value.text.decoder = PriorityDecoder(args.bytes)

\* C20: a buffer without a byte-order mark and without a byte >= 0x80 is
\* decoded as UTF-8 and reported with the label "ASCII/UTF-8".
C20_AsciiLabel ==
    (/\ args.fn = "detectAndDecodeText"
     /\ result # NotCalled
     /\ \A j \in 1..Len(args.bytes) : args.bytes[j] < 128)
        => /\ result.value.text.decoder = "utf-8"
           /\ result.value.encoding = "ASCII/UTF-8"

-----------------------------------------------------------------------------
(* Dates *)

\* a date of the calendar at midnight
DayOf(year, month, day) ==
    [none |-> FALSE, year |-> year, month |-> month, day |-> day,
     hour |-> 0, minute |-> 0, second |-> 0]

\* the parse under the first format from the k-th on that succeeds
RECURSIVE FirstParse(_, _, _)
FirstParse(value, formats, k) ==
    IF k > Len(formats) THEN NoDate
    ELSE IF ~tryParseDate(value, formats[k]).none THEN tryParseDate(value, formats[k])
    ELSE FirstParse(value, formats, k + 1)

\* C14: parseDateAutoDetect tries yyyy-MM-dd, dd/MM/yyyy, dd-MM-yyyy,
\* dd.MM.yyyy, yyyy/MM/dd in that order and returns the parse under the first
\* format that succeeds, null when none does or the value is empty; so
\* "01-02-2024" is read day first, as 1 February 2024.
C14_FirstFormat ==
    (args.fn = "parseDateAutoDetect" /\ result # NotCalled)
        => /\ result.value =
                  IF args.value = "" THEN NoDate
                  ELSE FirstParse(args.value,
                                  <<"yyyy-MM-dd", "dd/MM/yyyy", "dd-MM-yyyy",
                                    "dd.MM.yyyy", "yyyy/MM/dd">>, 1)
           /\ args.value = "01-02-2024" => result.value = DayOf(2024, 2, 1)

\* a text that both yyyy-MM-dd and dd-MM-yyyy read is returned as the first reads it
C14_Witness ==
    /\ args.fn = "parseDateAutoDetect"
    /\ args.value = "01-02-03"
    /\ ~tryParseDate(args.value, "yyyy-MM-dd").none
    /\ ~tryParseDate(args.value, "dd-MM-yyyy").none
    /\ result = Returned(DayOf(1, 2, 3))

-----------------------------------------------------------------------------
(* Coercion and transformation of one value *)

Applying == args.fn = "applyTransformation" /\ args.round = 1 /\ result # NotCalled

Coercing == args.fn = "transformValue" /\ args.round = 1 /\ result # NotCalled

\* the part of the transformation after its first n characters, cut at colons
PartsAfter(n) == Split(Slice(args.transformation.v, n), ":")

\* the format of a part, yyyy-MM-dd when the part is empty
FormatOr(part) == IF part = "" THEN "yyyy-MM-dd" ELSE part

\* the transformation of the call is one of the date family, and its value
\* does not parse as the date the transformation reads
NoDateRead ==
    /\ args.transformation.t = "str"
    /\ LET name == args.transformation.v
       IN  \/ /\ name = "date" \/ StartsWith(name, "dateFormat:")
                 \/ (StartsWith(name, "date:") /\ Len(PartsAfter(5)) = 1)
              /\ \A i \in 1..Len(DATE_FORMATS) : tryParseDate(args.value, DATE_FORMATS[i]).none
           \/ /\ StartsWith(name, "date:") /\ Len(PartsAfter(5)) = 2
              /\ tryParseDate(args.value, FormatOr(PartsAfter(5)[1])).none

\* the value of the call does not parse under the declared type, and no
\* conversion is in the way
NoTypeRead ==
    /\ FirstMatch(args.conversions, args.value, 1) = 0
    /\ \/ /\ args.sourceType \in {"integer", "number"}
          /\ parseNumber(args.value, args.decimalSeparator).nan
       \/ /\ args.sourceType = "boolean"
          /\ ToLowerCase(args.value) \notin
                 {"true", "t", "yes", "y", "1", "false", "f", "no", "n", "0"}

\* C15: for a value that does not parse as a date every date transformation
\* returns the empty string, never the value; for a value that does not parse
\* under the declared type the integer, number and boolean coercions return
\* the value unchanged; neither raises.
C15_FailureAsymmetry ==
    /\ (Applying /\ NoDateRead) => result.value = JStr("")
    /\ (Coercing /\ NoTypeRead) => result.value = JStr(args.value)

\* both sides of the asymmetry happen: "2024-13-40" under date, "abc" as a number
C15_Witness ==
    \/ /\ Applying /\ NoDateRead
       /\ args.value = "2024-13-40" /\ args.transformation = JStr("date")
       /\ result.value = JStr("")
    \/ /\ Coercing /\ NoTypeRead
       /\ args.value = "abc" /\ args.sourceType = "number"
       /\ result.value = JStr("abc")

\* the value as the convention of the separator cleans it
Cleaned(value, separator) ==
    IF separator = "," THEN ReplaceFirst(RemoveAll(Trim(value), "."), ",", ".")
    ELSE RemoveAll(Trim(value), ",")

\* C16: with the separator "," every "." is removed and the "," becomes the
\* decimal point, with "." every "," is removed; the number coercion then
\* returns the canonical decimal text of the leading number, with "." and no
\* thousands separators, so "1.234,56" under "," and "1,234.56" under "." both
\* give "1234.56"; a value with no leading numeric text is returned unchanged.
C16_NumericConvention ==
    (Coercing /\ args.sourceType = "number" /\ args.conversions = <<>>)
        => LET number == parseFloat(Cleaned(args.value, args.decimalSeparator))
           IN  /\ result.value =
                      JStr(IF number.nan THEN args.value ELSE NumberToString(number))
               /\ ~number.nan => ~Includes(result.value.v, ",")
               /\ (args.value = "1.234,56" /\ args.decimalSeparator = ",")
                      => result.value = JStr("1234.56")
               /\ (args.value = "1,234.56" /\ args.decimalSeparator = ".")
                      => result.value = JStr("1234.56")

C16_Witness ==
    /\ Coercing /\ args.sourceType = "number" /\ args.conversions = <<>>
    /\ args.value = "1.234,56" /\ args.decimalSeparator = ","
    /\ result.value = JStr("1234.56")

\* a second call on the result of the first has returned
Reapplied ==
    args.fn \in {"transformValue", "applyTransformation"} /\ args.round = 2 /\ result # NotCalled

\* C17 as stated: for every value, conversion list and separator transformValue
\* with sourceType "string" applied to its own result changes nothing, and trim
\* applied twice equals trim applied once.
C17_Idempotent ==
    Reapplied => result.value = JStr(args.value)

\* no targetValue of the list equals a sourceValue of the list, case aside
Unchained(conversions) ==
    \A i, j \in 1..Len(conversions) :
        conversions[i].targetValue.t = "str"
            => ToLowerCase(conversions[i].targetValue.v)
                   # ToLowerCase(conversions[j].sourceValue)

\* C17: for every value and separator, and every conversion list no
\* targetValue of which equals a sourceValue of the list case-insensitively,
\* transformValue with sourceType "string" applied to its own result changes
\* nothing; trim applied twice equals trim applied once.
C17_IdempotentUnchained ==
    /\ (Reapplied /\ args.fn = "transformValue" /\ Unchained(args.conversions))
           => result.value = JStr(args.value)
    /\ (Reapplied /\ args.fn = "applyTransformation") => result.value = JStr(args.value)

\* a conversion was applied by the first call and its result kept by the second
C17_Witness ==
    \/ /\ Reapplied /\ args.fn = "transformValue"
       /\ args.conversions = <<Conversion("yes", JStr("Ja")), Conversion("12", JStr("twelve"))>>
       /\ args.value = "twelve" /\ result.value = JStr("twelve")
    \/ /\ Reapplied /\ args.fn = "applyTransformation"
       /\ args.value = "b c" /\ result.value = JStr("b c")

-----------------------------------------------------------------------------
(* CSV round trip *)

\* C18: for every header list that is not empty and every row matrix of rows
\* as long as it, whose fields may hold the delimiter and double quotes,
\* parseCSV(stringifyCSV(H, R, ";"), ";") returns the headers H and the rows R.
C18_CsvRoundTrip ==
    (args.fn = "stringifyCSV" /\ args.round = 2 /\ result # NotCalled)
        => result.value = [headers |-> args.headers, rows |-> args.rows]

-----------------------------------------------------------------------------
(* Fetches in flight *)

\* the setting a document carries under `key`, `current` when it carries none
Carried(doc, key, current) ==
    IF Falsy(Get(doc, key)) THEN current ELSE Get(doc, key).v

\* C21: nothing cancels or orders the calls of importFromUrl in flight: whenever
\* the response of one of them, started before or after the others, settles
\* with a document that passes validation, the mapping list is rebuilt from
\* that document and the delimiters and the separator are those it carries, so
\* the state is that of the response that settles last.
C21_LastResponseWins ==
    [][\A i \in 1..MaxFetches : \A doc \in FetchedDocs :
          importFromUrlResumed(i, JsonText(doc)) /\ FetchedOutcome(doc).ok
              => /\ mappings' = RebuildMappings(doc, parsedCSV.headers)
                 /\ inputDelimiter' = Carried(doc, "inputDelimiter", inputDelimiter)
                 /\ outputDelimiter' = Carried(doc, "outputDelimiter", outputDelimiter)
                 /\ decimalSeparator' = Carried(doc, "decimalSeparator", decimalSeparator)
                 /\ importSuccess' # JNull]_vars

\* two calls of importFromUrl were in flight, the second settled first and the
\* first settled last, each with a document that was applied, and the state is
\* that of the document of the first
C21_Witness ==
    /\ Len(fetches) = 2
    /\ \A k \in 1..2 : /\ fetches[k].fn = "importFromUrl"
                       /\ fetches[k].await = "done"
                       /\ fetches[k].response.kind = "json"
    /\ fetches[1].settled = 2
    /\ fetches[2].settled = 1
    /\ fetches[1].response.doc = DocB
    /\ fetches[2].response.doc = DocA
    /\ mappings = RebuildMappings(DocB, parsedCSV.headers)
    /\ mappings # RebuildMappings(DocA, parsedCSV.headers)
    /\ inputDelimiter = "\t"
    /\ outputDelimiter = "\t"
    /\ importSuccess # JNull

-----------------------------------------------------------------------------
(* Snapshots *)

\* C22: every edit publishes a new mapping list and leaves the list that was
\* published before as it was, the conversions of each of its columns
\* included: after updateMapping, addConversion, updateConversion and
\* removeConversion the list published before the call reads as before it.
C22_ImmutableSnapshots ==
    [][/\ \A index \in 1..2 : \A updates \in MappingUpdates :
             updateMapping(index, updates)
                 => PublishedAfterUpdateMapping(index, updates) = mappings
       /\ \A mappingIndex \in ConversionColumns :
             /\ addConversion(mappingIndex)
                    => PublishedAfterAddConversion(mappingIndex) = mappings
             /\ \A convIndex \in 1..MaxConversions :
                   /\ \A updates \in ConversionUpdates :
                         updateConversion(mappingIndex, convIndex, updates)
                             => PublishedAfterUpdateConversion(mappingIndex, convIndex,
                                                               updates) = mappings
                   /\ removeConversion(mappingIndex, convIndex)
                          => PublishedAfterRemoveConversion(mappingIndex, convIndex)
                                 = mappings]_vars

-----------------------------------------------------------------------------
(* Parsing again *)

\* the delimiter change parses again: the input is not blank and a table is loaded
Reparsing == Trim(inputCSV) # "" /\ Len(parsedCSV.headers) > 0

\* C23: after handleParseCSV, and after a delimiter change that parses again,
\* the list has one mapping per header of the new table; the mapping of a header
\* h has the targetColumn, sourceType, conversions, transformation and include
\* of each mapping that had sourceColumn h before, and is the default mapping of
\* h when there was none; the mappings of other names are gone.
C23_PreservedAcrossReparse ==
    [][handleParseCSV \/ (Reparsing /\ handleInputDelimiterChange(","))
          => /\ Len(mappings') = Len(parsedCSV'.headers)
             /\ \A i \in 1..Len(parsedCSV'.headers) :
                   LET h == parsedCSV'.headers[i]
                       before == {k \in 1..Len(mappings) : mappings[k].sourceColumn = h}
                   IN  /\ mappings'[i].sourceColumn = h
                       /\ before = {} => mappings'[i] = DefaultMapping(h)
                       /\ \A k \in before : mappings'[i] = mappings[k]]_vars

-----------------------------------------------------------------------------
(* The list and the table *)

\* C24: in every reachable state, those included where an example load is
\* suspended at a fetch and another handler has run, the sourceColumn values of
\* the mapping list are the headers of the parsed table, in order.
C24_Aligned ==
    [k \in 1..Len(mappings) |-> mappings[k].sourceColumn] = parsedCSV.headers

-----------------------------------------------------------------------------
(* The two messages *)

\* C25: an import attempt ends applied or rejected: in every reachable state
\* the error message and the success message of the import are not both set.
C25_AppliedOrRejected == ~(importError # JNull /\ importSuccess # JNull)

-----------------------------------------------------------------------------
(* The input delimiter *)

\* C26: whenever a table is loaded, inputDelimiter is the delimiter the table
\* was parsed with: the input text, which is typed only into the empty box and
\* stays as it is while a table is loaded, parses with inputDelimiter to the
\* current table.
C26_DelimiterOfTable ==
    Len(parsedCSV.headers) > 0 => parsedCSV = parseCSV(inputCSV, inputDelimiter)

-----------------------------------------------------------------------------
(* The output read back *)

\* the records of a text under CSV quoting: a quoted field may hold the
\* separator, doubled quotes and line breaks, and every line outside a quoted
\* field is a record
RECURSIVE ReadBack(_, _)
ReadBack(lines, separator) ==
    IF Len(lines) = 0 THEN <<>>
    ELSE LET r == ParseRecord(lines[1], Tail(lines), <<>>, FALSE, "", separator)
         IN  <<r.record>> \o ReadBack(r.rest, separator)

\* C27: with an included column the output text reads back, under CSV quoting
\* with the output delimiter, as one record more than the table has rows, each
\* of as many fields as there are included columns, the first record being the
\* target names of the included columns in order; without an included column
\* the output is empty.
C27_WellFormedOutput ==
    (Len(parsedCSV.headers) > 0 /\ outputCSV.t = "str")
        => IF Len(Included) = 0 THEN outputCSV.v = ""
           ELSE LET records == ReadBack(Split(outputCSV.v, "\n"), outputDelimiter)
                IN  /\ Len(records) = 1 + Len(parsedCSV.rows)
                    /\ \A r \in 1..Len(records) : Len(records[r]) = Len(Included)
                    /\ records[1] = [i \in 1..Len(Included) |-> Included[i].targetColumn]

-----------------------------------------------------------------------------
(* Columns of one name *)

\* the positions in the list of the included columns, in order
IncludedPositions ==
    SelectSeq([p \in 1..Len(mappings) |-> p], LAMBDA p : mappings[p].include)

\* the field written for the cell of row r at header position p: the cell is
\* converted, transformed and quoted as its column's mapping says
PositionalField(r, p) ==
    OutputField(<<IF p <= Len(parsedCSV.rows[r]) THEN parsedCSV.rows[r][p] ELSE "">>,
                mappings[p], <<mappings[p].sourceColumn>>, outputDelimiter,
                decimalSeparator)

\* C28: each included column of the output holds the cells of the source column
\* at the header position of its own mapping, also where two headers have one
\* name: the output is the header line and, for every row, the fields of the
\* cells at the positions of the included mappings.
C28_PositionalSourcing ==
    (Len(parsedCSV.headers) > 0 /\ Len(Included) > 0 /\ outputCSV.t = "str")
        => outputCSV.v =
              Join(<<Join([i \in 1..Len(Included) |-> Included[i].targetColumn],
                          outputDelimiter)>>
                   \o [r \in 1..Len(parsedCSV.rows) |->
                          Join([i \in 1..Len(IncludedPositions) |->
                                   PositionalField(r, IncludedPositions[i]).v],
                               outputDelimiter)],
                   "\n")

-----------------------------------------------------------------------------
(* The types of the imported list *)

\* a mapping entry is well-typed
WellTyped(m) ==
    /\ m.targetColumn \in STRING
    /\ m.sourceType \in DataTypes \cup {""}
    /\ m.transformation = JUndefined \/ m.transformation.t = "str"
    /\ \A k \in 1..Len(m.conversions) :
          /\ m.conversions[k].sourceValue \in STRING
          /\ m.conversions[k].targetValue.t = "str"

\* C29: after a successful import every mapping entry is well-typed -- the
\* targetColumn a string, the sourceType unset or one of the four types, the
\* transformation absent or a string, the sourceValue and the targetValue of
\* every conversion strings -- and the output generator does not raise.
C29_WellTypedAfterImport ==
    importSuccess # JNull
        => /\ \A i \in 1..Len(mappings) : WellTyped(mappings[i])
           /\ outputCSV # Thrown

-----------------------------------------------------------------------------
(* The loading flag *)

\* the fetch of call i has failed: it was rejected, the response was not ok, or
\* its body was no JSON
FetchFailed(i) ==
    /\ i \in 1..Len(fetches)
    /\ fetches[i].fn = "loadExample"
    /\ fetches[i].await = "done"
    /\ fetches[i].response \in {NetworkError, NotOk, SyntaxErrorText}

\* C30: provided every fetch settles, every example load that was started sets
\* the loading flag back to false, whether the CSV fetch fails, the mapping
\* fetch fails, the mapping is rejected or the load succeeds; and the step in
\* which a fetch of the load fails leaves the flag false and an error message
\* set.
C30_LoadCompletes ==
    /\ exampleLoading ~> ~exampleLoading
    /\ [][\A i \in 1..MaxFetches :
             ~FetchFailed(i) /\ FetchFailed(i)'
                 => ~exampleLoading' /\ importError' # JNull]_vars

\* an example load whose fetch failed has ended: the flag is false and the
\* message of the failure is shown
C30_Witness ==
    /\ \E i \in 1..MaxFetches : FetchFailed(i)
    /\ ~exampleLoading
    /\ importError # JNull
    /\ StartsWith(importError.v, "Failed to load example: ")

====
